---------------------------- MODULE Spec2Model ----------------------------
(***************************************************************************)
(* Dialog state machine of the anormatch bot: the aiogram handlers of      *)
(* src/app/handlers, the session store they read and write (FSM state tag  *)
(* and data mapping), the per-user upload locks, and the remote profile    *)
(* API as the handlers see it (call, answer).                              *)
(*                                                                         *)
(* Encoding.  Python None is "None" in string-valued session keys and 0 in *)
(* integer-valued ones.  Message texts are tokens of a small catalogue;    *)
(* what Python computes on a text (len, isalpha, strptime, split) is       *)
(* tabulated for the catalogue and the validators are computed from that.  *)
(* Localised labels are written in ASCII ("Menu" is the menu button).      *)
(* Sending a message to the chat always succeeds; calls to the profile API *)
(* answer with a status or fail on the network.                            *)
(***************************************************************************)
EXTENDS Integers, Sequences, FiniteSets, TLC

(***************************************************************************)
(* Bounds of the model.                                                    *)
(***************************************************************************)
\* uploads (photo or video messages that pass the duration check) for one
\* pending media list
MaxUploads == 6
\* the same in the concurrent specification
MaxConcUploads == 2
\* handlers of upload events in flight at the same time
MaxTasks == 2
\* rewinds the remote history can answer in a row
MaxRewind == 2
\* the matches the remote side lists for a user
MaxMatches == 2

(***************************************************************************)
(* Program constants: validators.Params, config.BotSettings.               *)
(***************************************************************************)
name_min_length == 3
name_max_length == 50
min_age == 18
max_age == 100
bio_max_length == 255
media_min_count == 1
media_max_count == 5
media_max_duration == 60
rewind_limit == 5
report_reason_max_length == 500

Users == {"u1", "u2"}
\* the user whose dialog the sequential specification follows
U1 == "u1"

None == "None"

(***************************************************************************)
(* Session data: a mapping from keys to values (FSMContext data).          *)
(***************************************************************************)
EmptyData == [k \in {} |-> None]

has_key(d, k) == k \in DOMAIN d

\* FSMContext.get_value(key): the value, None when the key is absent
get_value(d, k) == IF k \in DOMAIN d THEN d[k] ELSE None

\* the same for integer-valued keys (rewind_index, index): absent reads as 0,
\* which is what "get_value(key) or 0" yields
get_int(d, k) == IF k \in DOMAIN d THEN d[k] ELSE 0

\* the same for the media list: "get_value('media') or []"
get_list(d, k) == IF k \in DOMAIN d THEN d[k] ELSE <<>>

\* FSMContext.update_data(**kw): merge, last write wins per key
update_data(d, upd) ==
    [k \in (DOMAIN d) \cup (DOMAIN upd) |->
        IF k \in DOMAIN upd THEN upd[k] ELSE d[k]]

\* one-key mapping
Kv(k, v) == [x \in {k} |-> v]

\* i18n_middleware.set_locale(state, locale): stores the locale in the session
set_locale(d, loc) == update_data(d, Kv("locale", loc))

\* state.set_data({"locale": locale}) with locale read from the old data:
\* show_menu and cmd_start
locale_only_mutant(d) == update_data(d, Kv("locale", get_value(d, "locale")))
locale_only(d) == Kv("locale", get_value(d, "locale"))

\* utils.clear_state(state, except_locale)
clear_state(d, except_locale) ==
    IF except_locale THEN Kv("locale", get_value(d, "locale")) ELSE EmptyData


(***************************************************************************)
(* The catalogue of message texts and what Python computes on them.        *)
(***************************************************************************)
\* len(text)
TextLen(t) ==
    CASE t = "Al" -> 2
      [] t = "Anna" -> 4
      [] t = "R2D2" -> 4
      [] t = "Name51" -> 51
      [] t = "Hello" -> 5
      [] t = "Bio255" -> 255
      [] t = "Bio256" -> 256
      [] t = "2000-05-01" -> 10
      [] t = "2015-05-01" -> 10
      [] t = "1900-01-01" -> 10
      [] t = "18-25" -> 5
      [] t = "25-18" -> 5
      [] t = "17-20" -> 5
      [] t = "18-101" -> 6
      [] t = "/menu" -> 5
      [] OTHER -> 8

\* all(x.isalpha() or x.isspace() for x in text)
IsAlphaSpace(t) == t \in {"Al", "Anna", "Name51", "Hello", "Bio255", "Bio256"}

\* datetime.strptime over the three formats, then the age as of today:
\* <<parsed, age>>
ParseBirthDate(t) ==
    CASE t = "2000-05-01" -> <<TRUE, 26>>
      [] t = "2015-05-01" -> <<TRUE, 11>>
      [] t = "1900-01-01" -> <<TRUE, 126>>
      [] OTHER -> <<FALSE, 0>>

\* the decimal digits as characters
Digits == <<"0", "1", "2", "3", "4", "5", "6", "7", "8", "9">>

\* str(n)
RECURSIVE str(_)
str(n) ==
    IF n < 0 THEN <<"-">> \o str(0 - n)
    ELSE IF n < 10 THEN <<Digits[n + 1]>>
    ELSE str(n \div 10) \o <<Digits[(n % 10) + 1]>>

\* text.split("-"): the pieces between the hyphens
RECURSIVE split(_)
split(s) ==
    IF \A k \in 1 .. Len(s) : s[k] # "-" THEN <<s>>
    ELSE LET k == CHOOSE i \in 1 .. Len(s) :
                    s[i] = "-" /\ \A j \in 1 .. (i - 1) : s[j] # "-"
         IN <<SubSeq(s, 1, k - 1)>> \o split(SubSeq(s, k + 1, Len(s)))

\* int(piece) for a piece without a sign: <<parsed, value>>; the empty piece
\* and a piece with a character that is no digit raise ValueError
RECURSIVE int(_)
int(s) ==
    IF s = <<>> THEN <<FALSE, 0>>
    ELSE LET c == s[Len(s)]
             front == SubSeq(s, 1, Len(s) - 1)
         IN IF \A d \in 1 .. 10 : Digits[d] # c THEN <<FALSE, 0>>
            ELSE LET v == (CHOOSE d \in 1 .. 10 : Digits[d] = c) - 1 IN
                 IF front = <<>> THEN <<TRUE, v>>
                 ELSE IF ~int(front)[1] THEN <<FALSE, 0>>
                 ELSE <<TRUE, 10 * int(front)[2] + v>>

\* min_age, max_age = map(int, value.split("-")) on the characters of the
\* text: <<parsed, min, max>>; anything but two pieces fails to unpack
parse_age_range(s) ==
    LET parts == split(s) IN
    IF Len(parts) # 2 THEN <<FALSE, 0, 0>>
    ELSE IF ~int(parts[1])[1] \/ ~int(parts[2])[1] THEN <<FALSE, 0, 0>>
    ELSE <<TRUE, int(parts[1])[2], int(parts[2])[2]>>

\* the characters of the catalogue texts that hold a hyphen or a digit; the
\* other texts are letters
Chars(t) ==
    CASE t = "18-25" -> <<"1", "8", "-", "2", "5">>
      [] t = "25-18" -> <<"2", "5", "-", "1", "8">>
      [] t = "17-20" -> <<"1", "7", "-", "2", "0">>
      [] t = "18-101" -> <<"1", "8", "-", "1", "0", "1">>
      [] t = "2000-05-01" -> <<"2", "0", "0", "0", "-", "0", "5", "-", "0", "1">>
      [] OTHER -> <<"A", "n", "n", "a">>

\* map(int, text.split("-")) unpacked into two names: <<parsed, min, max>>
ParseAgeRange(t) == parse_age_range(Chars(t))

(***************************************************************************)
(* validators.py.  A validator answers [ok, msg]: ok = FALSE is the raised *)
(* ValueError and msg its text.                                            *)
(***************************************************************************)
Ok == [ok |-> TRUE, msg |-> None]
Err(m) == [ok |-> FALSE, msg |-> m]

validate_name(t) ==
    IF ~(TextLen(t) > 0 /\ IsAlphaSpace(t)) THEN Err("name_letters")
    ELSE IF TextLen(t) < name_min_length THEN Err("name_too_short")
    ELSE IF TextLen(t) > name_max_length THEN Err("name_too_long")
    ELSE Ok

validate_birth_date(t) ==
    LET p == ParseBirthDate(t) IN
    IF ~p[1] THEN Err("invalid_date_format")
    ELSE IF p[2] < min_age THEN Err("too_young")
    ELSE IF p[2] > max_age THEN Err("too_old")
    ELSE Ok

validate_bio_mutant(t) ==
    IF t # None /\ TextLen(t) >= bio_max_length THEN Err("bio_too_long") ELSE Ok
validate_bio(t) ==
    IF t # None /\ TextLen(t) > bio_max_length THEN Err("bio_too_long") ELSE Ok

\* validate_media_size(list): the count against media_min_count..media_max_count
validate_media_size(n) ==
    IF n < media_min_count THEN Err("media_too_few")
    ELSE IF n > media_max_count THEN Err("media_too_many")
    ELSE Ok

validate_preference_age(a) ==
    IF a < min_age THEN Err("age_too_low")
    ELSE IF a > max_age THEN Err("age_too_high")
    ELSE Ok

validate_preference_ages_mutant(a, b) ==
    IF a = 0 \/ b = 0 THEN Ok
    ELSE IF a > b THEN Err("min_age_not_lower") ELSE Ok
validate_preference_ages(a, b) ==
    IF a = 0 \/ b = 0 THEN Ok
    ELSE IF a >= b THEN Err("min_age_not_lower") ELSE Ok

\* validate_preference_age_string after the parse p of its text:
\* [ok, msg, min, max]
validate_preference_age_parsed(p) ==
    IF ~p[1] THEN [ok |-> FALSE, msg |-> "invalid_age_range", min |-> 0, max |-> 0]
    ELSE IF ~validate_preference_age(p[2]).ok
         THEN [ok |-> FALSE, msg |-> validate_preference_age(p[2]).msg, min |-> 0, max |-> 0]
    ELSE IF ~validate_preference_age(p[3]).ok
         THEN [ok |-> FALSE, msg |-> validate_preference_age(p[3]).msg, min |-> 0, max |-> 0]
    ELSE IF ~validate_preference_ages(p[2], p[3]).ok
         THEN [ok |-> FALSE, msg |-> "min_age_not_lower", min |-> 0, max |-> 0]
    ELSE [ok |-> TRUE, msg |-> None, min |-> p[2], max |-> p[3]]

\* validate_preference_age_string(text) for a catalogue text
validate_preference_age_string(t) == validate_preference_age_parsed(ParseAgeRange(t))

\* validate_video_duration(seconds); 0 is "no duration"
validate_video_duration(dur) ==
    IF dur # 0 /\ dur > media_max_duration THEN Err("video_too_long") ELSE Ok


(***************************************************************************)
(* keyboards.py: the labels the filters compare with.                      *)
(***************************************************************************)
\* LANGUAGES: label -> UILanguages
LanguageLabels == {"Uzbek", "Russian", "English"}
LANGUAGES(t) ==
    CASE t = "Uzbek" -> "uz"
      [] t = "Russian" -> "ru"
      [] t = "English" -> "en"

\* GENDERS: label -> Genders
GenderLabels == {"Male", "Female"}
GENDERS(t) == CASE t = "Male" -> "male" [] t = "Female" -> "female"

\* GENDER_PREFERENCES: label -> PreferredGenders
GenderPreferenceLabels == {"Women", "Men"}
GENDER_PREFERENCES(t) == CASE t = "Women" -> "female" [] t = "Men" -> "male"

(***************************************************************************)
(* states.py.  NoState is the cleared state tag (set_state(None)).         *)
(***************************************************************************)
NoState == "no_state"

RegistrationStates ==
    {"set_ui_language", "set_name", "set_birth_date", "set_gender", "set_bio",
     "set_gender_preferences", "set_age_preferences", "set_location", "set_media"}

AppStates ==
    RegistrationStates \cup
    {"menu", "search", "likes", "settings", "matches", "report_reason",
     "deactivate_confirm", "deactivated", "delete_confirm", "deleted",
     "profile", "update_ui_language", "update_name", "update_age",
     "update_gender", "update_bio", "update_location", "update_media",
     "preferences", "update_gender_preferences", "update_age_preferences"}

(***************************************************************************)
(* Dispatch.  The routers are tried in the order BotApplication.startup    *)
(* includes them (registration, menu, search, likes, profile, matches) and *)
(* the handlers of a router in the order they are registered; the first    *)
(* handler whose filters match the message and the state tag handles it.   *)
(* kind is "text", "photo", "video" or "location"; t is the text.          *)
(***************************************************************************)
Route(st, kind, t) ==
    LET txt == (kind = "text") IN
    \* ---- registration router
    IF txt /\ t = "/help" THEN "cmd_help"
    ELSE IF txt /\ t = "/start" THEN "cmd_start"
    ELSE IF txt /\ st = "deleted" /\ t = "Start registration" THEN "cmd_start"
    ELSE IF st = "set_ui_language" /\ txt /\ t \in LanguageLabels THEN "set_language"
    ELSE IF st = "set_ui_language" THEN "set_language_invalid"
    ELSE IF st = "set_name" /\ txt THEN "set_name"
    ELSE IF st = "set_birth_date" /\ txt THEN "set_birth_date"
    ELSE IF st = "set_gender" /\ txt /\ t \in GenderLabels THEN "set_gender"
    ELSE IF st = "set_gender" THEN "set_gender_invalid"
    ELSE IF st = "set_bio" /\ txt /\ t = "Skip" THEN "skip_bio"
    ELSE IF st = "set_bio" /\ txt THEN "set_bio"
    ELSE IF st = "set_gender_preferences" /\ txt /\ t \in GenderPreferenceLabels
         THEN "set_preferred_gender"
    ELSE IF st = "set_gender_preferences" /\ txt THEN "set_gender_preferences_invalid"
    ELSE IF st = "set_age_preferences" /\ txt /\ t = "Skip" THEN "skip_age_preferences"
    ELSE IF st = "set_age_preferences" /\ txt THEN "set_age_preferences"
    ELSE IF st = "set_location" /\ txt THEN "set_location_by_name"
    ELSE IF st = "set_location" /\ kind = "location" THEN "set_location"
    ELSE IF st = "set_location" THEN "set_location_invalid"
    ELSE IF st = "set_media" /\ txt /\ t = "Continue" THEN "continue_registration"
    ELSE IF st = "set_media" /\ kind \in {"photo", "video"} THEN "set_media"
    \* ---- menu router
    ELSE IF txt /\ t \in {"Menu", "/menu"} THEN "show_menu"
    ELSE IF st \in {"likes", "search", "matches"} /\ txt /\ t = "Report" THEN "report"
    ELSE IF st = "report_reason" /\ txt THEN "report_reason"
    ELSE IF st = "menu" /\ txt /\ t = "Settings" THEN "show_settings"
    ELSE IF st = "settings" /\ txt /\ t = "Deactivate" THEN "deactivate_account"
    ELSE IF st = "deactivate_confirm" /\ txt /\ t = "No" THEN "deactivate_account_reject"
    ELSE IF st = "deactivate_confirm" /\ txt /\ t = "Yes" THEN "deactivate_account_confirm"
    ELSE IF st = "deactivated" /\ txt /\ t = "Activate my account" THEN "activate_account"
    ELSE IF st = "settings" /\ txt /\ t = "Language" THEN "change_language_start"
    ELSE IF st = "update_ui_language" /\ txt /\ t \in LanguageLabels THEN "change_language"
    ELSE IF st = "settings" /\ txt /\ t = "Delete account" THEN "delete_account_start"
    ELSE IF st = "delete_confirm" /\ txt /\ t = "No" THEN "delete_account_reject"
    ELSE IF st = "delete_confirm" /\ txt /\ t = "Yes" THEN "delete_account_confirm"
    \* ---- search router
    ELSE IF st = "menu" /\ txt /\ t = "Watch profiles" THEN "search_with_keyboard"
    ELSE IF st = "search" /\ txt /\ t = "Rewind" THEN "rewind_with_keyboard"
    ELSE IF st \in {"search", "likes", "matches"} /\ txt /\ t = "<<" THEN "rewind"
    ELSE IF st \in {"search", "likes"} /\ txt /\ t \in {"Dislike", "Like"} THEN "react"
    ELSE IF st = "matches" /\ txt /\ t = "Dislike" THEN "react"
    \* ---- likes router
    ELSE IF st = "menu" /\ txt /\ t = "Likes" THEN "show_likes_with_keyboard"
    \* ---- profile router
    ELSE IF st = "settings" /\ txt /\ t = "My profile" THEN "show_profile"
    ELSE IF st = "settings" /\ txt /\ t = "Search settings" THEN "update_preferences"
    ELSE IF st \in {"profile", "preferences"} /\ txt /\ t = "Back" THEN "back_to_settings"
    ELSE IF st = "profile" /\ txt /\ t = "Name" THEN "update_name_start"
    ELSE IF st = "update_name" /\ txt THEN "update_name"
    ELSE IF st = "profile" /\ txt /\ t = "Birth date" THEN "update_birth_date_start"
    ELSE IF st = "update_age" /\ txt THEN "update_birth_date"
    ELSE IF st = "profile" /\ txt /\ t = "Gender" THEN "update_gender_start"
    ELSE IF st = "update_gender" /\ txt /\ t \in GenderLabels THEN "update_gender"
    ELSE IF st = "profile" /\ txt /\ t = "Bio" THEN "update_bio_start"
    ELSE IF st = "update_bio" /\ txt THEN "update_bio"
    ELSE IF st = "preferences" /\ txt /\ t = "Gender preferences"
         THEN "update_gender_preferences_start"
    ELSE IF st = "update_gender_preferences" /\ txt /\ t \in GenderPreferenceLabels
         THEN "update_gender_preferences"
    ELSE IF st = "preferences" /\ txt /\ t = "Age preferences"
         THEN "update_age_preferences_start"
    ELSE IF st = "update_age_preferences" /\ txt THEN "update_age_preferences"
    ELSE IF st = "profile" /\ txt /\ t = "Location" THEN "update_location_start"
    ELSE IF st = "update_location" /\ txt THEN "update_location_by_name"
    ELSE IF st = "update_location" /\ kind = "location" THEN "update_location"
    ELSE IF st = "profile" /\ txt /\ t = "Media" THEN "update_media_start"
    ELSE IF st = "update_media" /\ txt /\ t = "Continue" THEN "continue_media"
    ELSE IF st = "update_media" /\ kind \in {"photo", "video"} THEN "update_media"
    \* ---- matches router
    ELSE IF st = "matches" /\ txt /\ t \in {"Left", "Right"} THEN "show_matches"
    ELSE IF st = "menu" /\ txt /\ t = "Matches" THEN "show_matches"
    ELSE "unhandled"


(***************************************************************************)
(* State.                                                                  *)
(*   state[u], data[u]  the session of user u: state tag and data mapping  *)
(*   remote[u]          what the profile API stores for u                  *)
(*   tasks[i]           the handlers of upload events and of "Continue"    *)
(*                      that are in flight (they run as asyncio tasks and  *)
(*                      interleave at their awaits)                        *)
(*   user_locks[r]      the lock registry of module r                      *)
(*   out                what the handler that finished last did: the API   *)
(*                      calls it issued, the messages it sent, whether an  *)
(*                      exception left it; blank from the dispatch of an   *)
(*                      upload or "Continue" until its handler finishes    *)
(*   nfiles[u]          the files received for the pending media list of   *)
(*                      u (the file ids of a list are drawn from it)       *)
(***************************************************************************)
VARIABLES state, data, remote, tasks, user_locks, out, nfiles

vars == <<state, data, remote, tasks, user_locks, out, nfiles>>

TaskIds == 1 .. MaxTasks

\* an API call as the handlers issue it: the operation, the size of what it
\* carries (the descriptors of a media batch, the characters of a text), the
\* identifier or value it is about, and how it was answered ("ok", a status
\* such as "s400", or "net" for a failure of the network)
Call(op, n) == [op |-> op, n |-> n, arg |-> None, answer |-> "ok"]

\* a call about an identifier or a value
CallTo(op, arg) == [Call(op, 0) EXCEPT !.arg = arg]

Answered(call, a) == [call EXCEPT !.answer = a]

\* a pending media descriptor (the dict set_media / update_media builds)
File(id, type, dur) == [telegram_id |-> id, file_type |-> type, duration |-> dur]

IdleTask ==
    [pc |-> "idle", h |-> None, u |-> None, file |-> File(0, None, 0),
     media |-> <<>>, d |-> EmptyData, cur |-> <<>>, lock |-> 0,
     calls |-> <<>>, msgs |-> <<>>, typed |-> <<0, 0>>,
     card |-> [viewer |-> FALSE, viewer_precise |-> FALSE, viewer_at |-> 0,
               precise |-> FALSE, at |-> 0, place |-> FALSE]]

AllIdle == \A i \in TaskIds : tasks[i].pc = "idle"

Out(u, h, calls, msgs, raised) ==
    [u |-> u, handler |-> h, calls |-> calls, msgs |-> msgs, raised |-> raised]

NoOut == Out(None, None, <<>>, <<>>, FALSE)

\* what the profile API stores for a user: the account, its language,
\* the set of media files (by telegram file id), whether preferences exist,
\* whether a place is attached
NoRemote ==
    [account |-> "none", ui_language |-> None,
     media |-> {}, prefs |-> FALSE, place |-> FALSE]

\* the file id of the media an account that exists from the start has
OldFile == 0

ExistingRemote ==
    [account |-> "active", ui_language |-> "en",
     media |-> {OldFile}, prefs |-> TRUE, place |-> TRUE]

\* the file ids of a list of descriptors
FileIds(media) == {media[k].telegram_id : k \in 1 .. Len(media)}

EmptyRegistry == [map |-> [x \in {} |-> 0], held |-> <<>>]

Registries == {"registration", "profile"}

\* a fresh session store; the account may or may not exist remotely
Init ==
    /\ state = [u \in Users |-> NoState]
    /\ data = [u \in Users |-> EmptyData]
    /\ \E r \in {NoRemote, ExistingRemote} :
          remote = [u \in Users |-> IF u = U1 THEN r ELSE NoRemote]
    /\ tasks = [i \in TaskIds |-> IdleTask]
    /\ user_locks = [r \in Registries |-> EmptyRegistry]
    /\ out = NoOut
    /\ nfiles = [u \in Users |-> 0]

\* the files received for the pending list of a session whose data becomes
\* d: none once the list is discarded
Received(n, d) == IF has_key(d, "media") THEN n ELSE 0

\* an atomic handler of user u ends: session and report
Finish(u, h, st, d, calls, msgs, raised) ==
    /\ state' = [state EXCEPT ![u] = st]
    /\ data' = [data EXCEPT ![u] = d]
    /\ nfiles' = [nfiles EXCEPT ![u] = Received(@, d)]
    /\ out' = Out(u, h, calls, msgs, raised)

(***************************************************************************)
(* handlers/menu.py: show_menu.  The steps other handlers end with.        *)
(***************************************************************************)
show_menu_data(d) == locale_only(d)

\* "Menu" / "/menu" in any state no earlier handler takes
show_menu(u) ==
    /\ AllIdle
    /\ \E t \in {"Menu", "/menu"} : Route(state[u], "text", t) = "show_menu"
    /\ Finish(u, "show_menu", "menu", show_menu_data(data[u]), <<>>, <<"menu">>, FALSE)
    /\ UNCHANGED <<remote, tasks, user_locks>>

(***************************************************************************)
(* handlers/registration.py: cmd_start.                                    *)
(***************************************************************************)
\* answers of GET /v1/bans/check/{id}: banned, not banned, unknown user,
\* failures
BanAnswers(r) ==
    {"banned", "ok", "s500", "net"} \cup (IF r.account = "none" THEN {"s404"} ELSE {})

\* answers of GET /v1/users/me
MeAnswers(r) == {"s500", "net"} \cup (IF r.account = "none" THEN {"s404"} ELSE {"ok"})

\* a cmd_start that resets the session only after the ban check has answered
cmd_start_late_mutant(u) ==
    /\ AllIdle
    /\ \E t \in {"/start", "Start registration"} : Route(state[u], "text", t) = "cmd_start"
    /\ \E a \in {"s500", "net"} :
         Finish(u, "cmd_start", state[u], data[u],
                <<Answered(Call("bans/check", 0), a)>>, <<>>, TRUE)
    /\ UNCHANGED <<remote, tasks, user_locks>>

cmd_start_mutant(u) ==
    /\ AllIdle
    /\ \E t \in {"/start", "Start registration"} : Route(state[u], "text", t) = "cmd_start"
    /\ Finish(u, "cmd_start", "menu", locale_only(data[u]),
              <<Answered(Call("bans/check", 0), "banned")>>, <<"banned">>, FALSE)
    /\ UNCHANGED <<remote, tasks, user_locks>>

cmd_start(u) ==
    /\ AllIdle
    /\ \E t \in {"/start", "Start registration"} : Route(state[u], "text", t) = "cmd_start"
    /\ LET d0 == locale_only(data[u])
           ban == Call("bans/check", 0)
           me == Call("users/me", 0)
       IN \E a \in BanAnswers(remote[u]) :
            IF a = "banned"
            THEN Finish(u, "cmd_start", NoState, d0, <<Answered(ban, a)>>, <<"banned">>, FALSE)
            ELSE IF a \in {"s500", "net"}
            THEN Finish(u, "cmd_start", NoState, d0, <<Answered(ban, a)>>, <<>>, TRUE)
            ELSE \E b \in MeAnswers(remote[u]) :
                   LET d1 == Kv("locale", remote[u].ui_language) IN
                   IF b = "ok" /\ remote[u].account = "active"
                   THEN Finish(u, "cmd_start", "menu", show_menu_data(d1),
                               <<Answered(ban, a), Answered(me, b)>>, <<"menu">>, FALSE)
                   ELSE IF b = "ok"
                   THEN Finish(u, "cmd_start", "deactivated", d1,
                               <<Answered(ban, a), Answered(me, b)>>, <<"account_deactivated">>, FALSE)
                   ELSE IF b = "s404"
                   THEN Finish(u, "cmd_start", "set_ui_language", d0,
                               <<Answered(ban, a), Answered(me, b)>>, <<"select_language">>, FALSE)
                   ELSE Finish(u, "cmd_start", NoState, d0, <<Answered(ban, a), Answered(me, b)>>, <<>>, TRUE)
    /\ UNCHANGED <<remote, tasks, user_locks>>


(***************************************************************************)
(* handlers/registration.py: the registration dialog up to set_media.      *)
(* The texts a handler is tried with are the catalogue entries that reach  *)
(* its branches.                                                           *)
(***************************************************************************)
NameTexts == {"Anna", "Al", "R2D2", "Name51", "/menu"}
BirthDateTexts == {"2000-05-01", "2015-05-01", "1900-01-01", "Anna"}
BioTexts == {"Hello", "Bio256"}
AgeRangeTexts == {"18-25", "25-18", "17-20", "18-101", "Anna"}

\* a handler that only answers: state tag and data stay
Reprompt(u, h, msg) ==
    /\ Finish(u, h, state[u], data[u], <<>>, <<msg>>, FALSE)
    /\ UNCHANGED <<remote, tasks, user_locks>>

\* a handler that stores keys, sends one prompt and sets the next state tag
Advance(u, h, upd, msg, st) ==
    /\ Finish(u, h, st, update_data(data[u], upd), <<>>, <<msg>>, FALSE)
    /\ UNCHANGED <<remote, tasks, user_locks>>

set_language(u) ==
    /\ AllIdle
    /\ \E t \in {"English"} :
         /\ Route(state[u], "text", t) = "set_language"
         /\ Finish(u, "set_language", "set_name",
                   update_data(set_locale(data[u], LANGUAGES(t)),
                               Kv("language", LANGUAGES(t))),
                   <<>>, <<"ask_name">>, FALSE)
    /\ UNCHANGED <<remote, tasks, user_locks>>

set_language_invalid(u) ==
    /\ AllIdle
    /\ \E k \in {"text", "photo"} : Route(state[u], k, "Hello") = "set_language_invalid"
    /\ Reprompt(u, "set_language_invalid", "select_one_of_languages")

set_name(u) ==
    /\ AllIdle
    /\ \E t \in NameTexts :
         /\ Route(state[u], "text", t) = "set_name"
         /\ IF validate_name(t).ok
            THEN Advance(u, "set_name", Kv("name", t), "ask_birth_date", "set_birth_date")
            ELSE Reprompt(u, "set_name", validate_name(t).msg)

set_birth_date(u) ==
    /\ AllIdle
    /\ \E t \in BirthDateTexts :
         /\ Route(state[u], "text", t) = "set_birth_date"
         /\ IF validate_birth_date(t).ok
            THEN Advance(u, "set_birth_date", Kv("birth_date", t), "ask_gender", "set_gender")
            ELSE Reprompt(u, "set_birth_date", validate_birth_date(t).msg)

set_gender(u) ==
    /\ AllIdle
    /\ \E t \in {"Female"} :
         /\ Route(state[u], "text", t) = "set_gender"
         /\ Advance(u, "set_gender", Kv("gender", GENDERS(t)), "ask_bio", "set_bio")

set_gender_invalid(u) ==
    /\ AllIdle
    /\ \E k \in {"text", "photo"} : Route(state[u], k, "Hello") = "set_gender_invalid"
    /\ Reprompt(u, "set_gender_invalid", "select_one_of_options")

skip_bio(u) ==
    /\ AllIdle
    /\ Route(state[u], "text", "Skip") = "skip_bio"
    /\ Advance(u, "skip_bio", Kv("bio", None), "ask_preferred_gender", "set_gender_preferences")

set_bio(u) ==
    /\ AllIdle
    /\ \E t \in BioTexts :
         /\ Route(state[u], "text", t) = "set_bio"
         /\ IF validate_bio(t).ok
            THEN Advance(u, "set_bio", Kv("bio", t), "ask_preferred_gender",
                         "set_gender_preferences")
            ELSE Reprompt(u, "set_bio", validate_bio(t).msg)

set_preferred_gender(u) ==
    /\ AllIdle
    /\ \E t \in {"Men"} :
         /\ Route(state[u], "text", t) = "set_preferred_gender"
         /\ Advance(u, "set_preferred_gender", Kv("preferred_gender", GENDER_PREFERENCES(t)),
                    "ask_age_preferences", "set_age_preferences")

set_gender_preferences_invalid(u) ==
    /\ AllIdle
    /\ Route(state[u], "text", "Hello") = "set_gender_preferences_invalid"
    /\ Reprompt(u, "set_gender_preferences_invalid", "select_one_of_options")

AgePrefs(a, b) ==
    [k \in {"preferred_min_age", "preferred_max_age"} |->
        IF k = "preferred_min_age" THEN a ELSE b]

skip_age_preferences(u) ==
    /\ AllIdle
    /\ Route(state[u], "text", "Skip") = "skip_age_preferences"
    /\ Advance(u, "skip_age_preferences", AgePrefs(0, 0), "ask_location", "set_location")

set_age_preferences(u) ==
    /\ AllIdle
    /\ \E t \in AgeRangeTexts :
         /\ Route(state[u], "text", t) = "set_age_preferences"
         /\ LET v == validate_preference_age_string(t) IN
            IF v.ok
            THEN Advance(u, "set_age_preferences", AgePrefs(v.min, v.max),
                         "ask_location", "set_location")
            ELSE Reprompt(u, "set_age_preferences", v.msg)


\* the keys set_location / set_location_by_name_selected store
Coordinates(lat, lon, precise) ==
    [k \in {"latitude", "longitude", "is_location_precise"} |->
        IF k = "latitude" THEN lat ELSE IF k = "longitude" THEN lon ELSE precise]

set_location_by_name(u) ==
    /\ AllIdle
    /\ Route(state[u], "text", "Tashkent") = "set_location_by_name"
    /\ IF get_value(data[u], "language") = None
       THEN Finish(u, "set_location_by_name", state[u], data[u], <<>>, <<>>, FALSE)
       ELSE \E a \in {"ok", "empty", "s500", "net"} :
              Finish(u, "set_location_by_name", state[u], data[u],
                     <<Answered(Call("places/search", 0), a)>>,
                     <<CASE a = "ok" -> "select_city"
                         [] a = "empty" -> "city_not_found"
                         [] OTHER -> "error_searching_cities">>,
                     FALSE)
    /\ UNCHANGED <<remote, tasks, user_locks>>

\* the callback query "place_id:<id>" of the inline keyboard
set_location_by_name_selected(u) ==
    /\ AllIdle
    /\ state[u] = "set_location"
    /\ \E a \in {"ok", "s404", "net"} :
         IF a = "ok"
         THEN Finish(u, "set_location_by_name_selected", "set_media",
                     update_data(update_data(data[u], Kv("place_id", "place1")),
                                 Coordinates(41, 69, FALSE)),
                     <<Answered(Call("places/details", 0), a)>>, <<"ask_media">>, FALSE)
         ELSE Finish(u, "set_location_by_name_selected", state[u], data[u],
                     <<Answered(Call("places/details", 0), a)>>, <<"error_place_information">>, FALSE)
    /\ UNCHANGED <<remote, tasks, user_locks>>

set_location(u) ==
    /\ AllIdle
    /\ Route(state[u], "location", None) = "set_location"
    /\ \E a \in {"ok", "s404", "net"} :
         LET d1 == update_data(data[u], Coordinates(41, 69, TRUE))
             d2 == IF a = "ok" THEN update_data(d1, Kv("place_id", "place1")) ELSE d1
         IN Finish(u, "set_location", "set_media", d2,
                   <<Answered(Call("places/coordinates", 0), a)>>, <<"ask_media">>, FALSE)
    /\ UNCHANGED <<remote, tasks, user_locks>>

set_location_invalid(u) ==
    /\ AllIdle
    /\ Route(state[u], "photo", None) = "set_location_invalid"
    /\ Reprompt(u, "set_location_invalid", "share_location")

(***************************************************************************)
(* The per-user lock registries: user_locks of handlers/registration.py    *)
(* and of handlers/profile.py.  A registry maps a user id to the lock made *)
(* for it; held[l] is the task holding lock l, 0 when it is free.          *)
(***************************************************************************)
\* get_user_lock(user_id): the registry after the call and the lock returned
get_user_lock_shared_mutant(reg, u) ==
    [reg |-> [map |-> [x \in (DOMAIN reg.map) \cup {u} |-> 1],
              held |-> IF reg.held = <<>> THEN <<0>> ELSE reg.held],
     lock |-> 1]
get_user_lock_mutant(reg, u) ==
    [reg |-> [map |-> [x \in (DOMAIN reg.map) \cup {u} |->
                          IF x = u THEN Len(reg.held) + 1 ELSE reg.map[x]],
              held |-> Append(reg.held, 0)],
     lock |-> Len(reg.held) + 1]
get_user_lock(reg, u) ==
    IF u \in DOMAIN reg.map
    THEN [reg |-> reg, lock |-> reg.map[u]]
    ELSE [reg |-> [map |-> [x \in (DOMAIN reg.map) \cup {u} |->
                               IF x = u THEN Len(reg.held) + 1 ELSE reg.map[x]],
                   held |-> Append(reg.held, 0)],
          lock |-> Len(reg.held) + 1]

\* the module whose registry handler h uses
RegistryOf(h) == IF h = "set_media" THEN "registration" ELSE "profile"


(***************************************************************************)
(* Upload handlers: set_media and continue_registration (registration.py), *)
(* update_media and continue_media (profile.py).  Each runs as a task; a   *)
(* step is the code between two awaits.  conc = FALSE is the sequential    *)
(* dispatch (one event of a user at a time), conc = TRUE the dispatch of   *)
(* an album, whose events are handled concurrently.                        *)
(***************************************************************************)
IdleSlots == {i \in TaskIds : tasks[i].pc = "idle"}

FreeSlot == CHOOSE i \in IdleSlots : \A j \in IdleSlots : i <= j

MayDispatch(u, conc) ==
    IF conc THEN IdleSlots # {} /\ nfiles[u] < MaxConcUploads
    ELSE AllIdle /\ nfiles[u] < MaxUploads

Start(u, h, pc, file) ==
    /\ tasks' = [tasks EXCEPT ![FreeSlot] =
                   [IdleTask EXCEPT !.pc = pc, !.h = h, !.u = u, !.file = file]]
    /\ out' = NoOut

\* the task moves on
Goto(i, pc, calls, msgs) ==
    tasks' = [tasks EXCEPT ![i].pc = pc,
                           ![i].calls = tasks[i].calls \o calls,
                           ![i].msgs = tasks[i].msgs \o msgs]

\* the handler returns (raised = FALSE) or an exception leaves it
EndTask(i, calls, msgs, raised) ==
    /\ tasks' = [tasks EXCEPT ![i] = IdleTask]
    /\ out' = Out(tasks[i].u, tasks[i].h, tasks[i].calls \o calls,
                  tasks[i].msgs \o msgs, raised)

UploadHandlers == {"set_media", "update_media"}

\* a photo or a video arrives in set_media / update_media: the descriptor is
\* built; a video longer than media_max_duration is answered and dropped
DispatchUpload(u) ==
    /\ \E k \in {"photo", "video"} :
         LET h == Route(state[u], k, None)
             dur == IF k = "photo" THEN 0 ELSE 61
         IN /\ h \in UploadHandlers
            /\ IF k = "video" /\ ~validate_video_duration(dur).ok
               THEN /\ out' = Out(u, h, <<>>, <<validate_video_duration(dur).msg>>, FALSE)
                    /\ UNCHANGED <<tasks, nfiles>>
               ELSE /\ Start(u, h, "lock",
                             File(nfiles[u] + 1, IF k = "photo" THEN "image" ELSE "video", dur))
                    /\ nfiles' = [nfiles EXCEPT ![u] = @ + 1]
    /\ UNCHANGED <<state, data, remote, user_locks>>

UploadEvent(u, conc) == MayDispatch(u, conc) /\ DispatchUpload(u)

\* lock = get_user_lock(id); async with lock: (waits while the lock is held)
TLock(i) ==
    /\ tasks[i].pc = "lock"
    /\ LET r == RegistryOf(tasks[i].h)
           g == get_user_lock(user_locks[r], tasks[i].u)
       IN /\ g.reg.held[g.lock] = 0
          /\ user_locks' = [user_locks EXCEPT
                              ![r] = [g.reg EXCEPT !.held[g.lock] = i]]
          /\ tasks' = [tasks EXCEPT ![i].pc = "read", ![i].lock = g.lock]
    /\ UNCHANGED <<state, data, remote, out, nfiles>>

\* media = (await state.get_value("media")) or []; media.append(file)
append_file(d, f) == Append(get_list(d, "media"), f)

TRead(i) ==
    /\ tasks[i].pc = "read"
    /\ tasks' = [tasks EXCEPT ![i].pc = "write",
                              ![i].media = append_file(data[tasks[i].u], tasks[i].file)]
    /\ UNCHANGED <<state, data, remote, user_locks, out, nfiles>>

\* await state.update_data(media=media); the lock is released on leaving
\* the block
TWrite_mutant(i) ==
    /\ tasks[i].pc = "write"
    /\ data' = [data EXCEPT ![tasks[i].u] = update_data(@, Kv("media", tasks[i].media))]
    /\ tasks' = [tasks EXCEPT ![i].pc = "check"]
    /\ UNCHANGED <<state, remote, out, nfiles, user_locks>>

TWrite(i) ==
    /\ tasks[i].pc = "write"
    /\ data' = [data EXCEPT ![tasks[i].u] = update_data(@, Kv("media", tasks[i].media))]
    /\ user_locks' = [user_locks EXCEPT
                        ![RegistryOf(tasks[i].h)].held[tasks[i].lock] = 0]
    /\ tasks' = [tasks EXCEPT ![i].pc = "check", ![i].lock = 0]
    /\ UNCHANGED <<state, remote, out, nfiles>>

\* validate_media_size(media), the answer, and the decision to finish
TCheck(i) ==
    /\ tasks[i].pc = "check"
    /\ LET n == Len(tasks[i].media)
           v == validate_media_size(n)
       IN IF ~v.ok
          THEN Goto(i, "fin", <<>>, <<v.msg>>) /\ UNCHANGED out
          ELSE IF n >= media_max_count
          THEN Goto(i, "fin", <<>>, <<"file_uploaded">>) /\ UNCHANGED out
          ELSE EndTask(i, <<>>, <<"file_uploaded_more">>, FALSE)
    /\ UNCHANGED <<state, data, remote, user_locks, nfiles>>

ContinueHandlers == {"continue_registration", "continue_media"}

\* "Continue" arrives in set_media / update_media
ContinueEvent(u, conc) ==
    /\ IF conc THEN IdleSlots # {} ELSE AllIdle
    /\ Route(state[u], "text", "Continue") \in ContinueHandlers
    /\ Start(u, Route(state[u], "text", "Continue"), "cont", File(0, None, 0))
    /\ UNCHANGED <<state, data, remote, user_locks, nfiles>>

\* continue_registration: validate_media_size(media or []);
\* continue_media: "if not media"
TCont(i) ==
    /\ tasks[i].pc = "cont"
    /\ LET n == Len(get_list(data[tasks[i].u], "media"))
           v == IF tasks[i].h = "continue_registration" THEN validate_media_size(n)
                ELSE IF n = 0 THEN Err("upload_at_least_one") ELSE Ok
       IN IF v.ok
          THEN Goto(i, "fin", <<>>, <<>>) /\ UNCHANGED out
          ELSE EndTask(i, <<>>, <<v.msg>>, FALSE)
    /\ UNCHANGED <<state, data, remote, user_locks, nfiles>>


(***************************************************************************)
(* handlers/registration.py: finish_registration.                          *)
(***************************************************************************)
RegistrationHandlers == {"set_media", "continue_registration"}

\* the keys finish_registration subscripts (data["..."]); bio and place_id
\* are read with data.get
RequiredKeys ==
    {"media", "preferred_min_age", "preferred_max_age", "preferred_gender",
     "birth_date", "name", "gender", "language", "latitude", "longitude",
     "is_location_precise"}

\* data = await state.get_data(); the payloads are built from it.  A missing
\* key (KeyError) or a birth date that no longer validates (ValueError)
\* leaves the handler.
finish_registration_data_mutant(i) ==
    /\ tasks[i].pc = "fin"
    /\ tasks[i].h \in RegistrationHandlers
    /\ tasks' = [tasks EXCEPT
                   ![i].pc = IF remote[tasks[i].u].account = "none" THEN "register"
                             ELSE "batch",
                   ![i].d = data[tasks[i].u]]
    /\ UNCHANGED <<state, data, remote, user_locks, nfiles, out>>

finish_registration_data(i) ==
    /\ tasks[i].pc = "fin"
    /\ tasks[i].h \in RegistrationHandlers
    /\ LET d == data[tasks[i].u] IN
       IF RequiredKeys \subseteq DOMAIN d /\ validate_birth_date(d["birth_date"]).ok
       THEN /\ tasks' = [tasks EXCEPT ![i].pc = "register", ![i].d = d]
            /\ UNCHANGED out
       ELSE EndTask(i, <<>>, <<>>, TRUE)
    /\ UNCHANGED <<state, data, remote, user_locks, nfiles>>

\* answers of a POST of finish_registration: a success, an error status
\* (raise_for_status raises HTTPStatusError), a network failure
PostAnswers == {"ok", "s400", "net"}

\* except httpx.HTTPStatusError: the message is sent and the error re-raised;
\* any other exception leaves the handler unanswered
finish_registration_failed_mutant(i, call, a) ==
    Goto(i, "prefs", <<Answered(call, a)>>, <<>>) /\ UNCHANGED out
finish_registration_failed(i, call, a) ==
    EndTask(i, <<Answered(call, a)>>,
            IF a = "net" THEN <<>> ELSE <<"registration_error">>, TRUE)

\* POST /v1/auth/register
finish_registration_register(i) ==
    /\ tasks[i].pc = "register"
    /\ LET u == tasks[i].u
           call == Call("auth/register", 0)
       IN \E a \in PostAnswers :
            IF a = "ok"
            THEN /\ remote' = [remote EXCEPT
                                 ![u].account = "active",
                                 ![u].ui_language = tasks[i].d["language"],
                                 ![u].place = has_key(tasks[i].d, "place_id")]
                 /\ Goto(i, "batch", <<call>>, <<>>)
                 /\ UNCHANGED out
            ELSE finish_registration_failed(i, call, a) /\ UNCHANGED remote
    /\ UNCHANGED <<state, data, user_locks, nfiles>>

\* POST /v1/media/batch-add with the descriptors of the data read
finish_registration_batch(i) ==
    /\ tasks[i].pc = "batch"
    /\ LET u == tasks[i].u
           call == Call("media/batch-add", Len(tasks[i].d["media"]))
       IN \E a \in PostAnswers :
            IF a = "ok"
            THEN /\ remote' = [remote EXCEPT ![u].media = @ \cup FileIds(tasks[i].d["media"])]
                 /\ Goto(i, "prefs", <<call>>, <<>>)
                 /\ UNCHANGED out
            ELSE finish_registration_failed(i, call, a) /\ UNCHANGED remote
    /\ UNCHANGED <<state, data, user_locks, nfiles>>

\* POST /v1/preferences, then "Registration has been completed!"
finish_registration_preferences(i) ==
    /\ tasks[i].pc = "prefs"
    /\ LET u == tasks[i].u
           call == Call("preferences", 0)
       IN \E a \in PostAnswers :
            IF a = "ok"
            THEN /\ remote' = [remote EXCEPT ![u].prefs = TRUE]
                 /\ Goto(i, "card", <<call>>, <<"registration_completed">>)
                 /\ UNCHANGED out
            ELSE finish_registration_failed(i, call, a) /\ UNCHANGED remote
    /\ UNCHANGED <<state, data, user_locks, nfiles>>

\* utils.get_profile_card for a user record r: the place name is looked up
\* when the user has a place_id; an error status of the lookup is suppressed,
\* a network failure is not.  The answers the lookup can give.
PlaceNameAnswers(r) == IF r.place THEN {"ok", "s404", "net"} ELSE {"none"}

\* profile = await get_profile_card(user, media); answer_media_group(profile)
finish_registration_card(i) ==
    /\ tasks[i].pc = "card"
    /\ \E a \in PlaceNameAnswers(remote[tasks[i].u]) :
         LET calls == IF a = "none" THEN <<>>
                      ELSE <<Answered(Call("places/name", 0), a)>> IN
         IF a = "net"
         THEN EndTask(i, calls, <<>>, TRUE)
         ELSE Goto(i, "menu_data", calls, <<"profile_card">>) /\ UNCHANGED out
    /\ UNCHANGED <<state, data, remote, user_locks, nfiles>>

\* show_menu: the data is reset to the locale, the menu is sent
finish_registration_menu_data(i) ==
    /\ tasks[i].pc = "menu_data"
    /\ data' = [data EXCEPT ![tasks[i].u] = show_menu_data(@)]
    /\ nfiles' = [nfiles EXCEPT ![tasks[i].u] = Received(@, show_menu_data(data[tasks[i].u]))]
    /\ Goto(i, "menu_state", <<>>, <<"menu">>)
    /\ UNCHANGED <<state, remote, user_locks, out>>

\* show_menu: set_state(AppStates.menu)
finish_registration_menu_state(i) ==
    /\ tasks[i].pc = "menu_state"
    /\ state' = [state EXCEPT ![tasks[i].u] = "menu"]
    /\ EndTask(i, <<>>, <<>>, FALSE)
    /\ UNCHANGED <<data, remote, user_locks, nfiles>>


(***************************************************************************)
(* handlers/profile.py: show_profile.                                      *)
(***************************************************************************)
\* what the try block of show_profile can meet for a remote record r:
\* get_current_user, get_user_media, get_profile_card (which asserts that the
\* user is active and looks the place name up)
ProfileAnswers(r) ==
    IF r.account = "none" THEN {"s404", "s500", "net"}
    ELSE IF r.account = "inactive" THEN {"s500", "net", "assert"}
    ELSE {"s500", "net", "ok"} \cup (IF r.place THEN {"net_place"} ELSE {})

ProfileCalls(r, a) ==
    IF a \in {"s404", "s500", "net"} THEN <<Answered(Call("users/me", 0), a)>>
    ELSE <<Call("users/me", 0), Call("users/me", 0), Call("media", 0)>>
         \o (IF r.place /\ a # "assert"
             THEN <<Answered(Call("places/name", 0), IF a = "net_place" THEN "net" ELSE "ok")>>
             ELSE <<>>)

ProfileMsgs(a) ==
    CASE a = "ok" -> <<"profile_card", "profile_buttons">>
      [] a = "s404" -> <<"profile_not_found">>
      [] a = "s500" -> <<"unable_to_load_profile">>
      [] OTHER -> <<>>

\* an exception other than HTTPStatusError leaves show_profile
ProfileRaises(a) == a \in {"net", "net_place", "assert"}

\* show_profile run to its end by an atomic handler h that has already
\* issued calls0 and sent msgs0
ShowProfile(u, h, calls0, msgs0) ==
    \E a \in ProfileAnswers(remote[u]) :
      Finish(u, h,
             IF a = "ok" THEN "profile" ELSE state[u],
             IF a = "ok" THEN clear_state(data[u], TRUE) ELSE data[u],
             calls0 \o ProfileCalls(remote[u], a),
             msgs0 \o ProfileMsgs(a),
             ProfileRaises(a))

show_profile(u) ==
    /\ AllIdle
    /\ Route(state[u], "text", "My profile") = "show_profile"
    /\ ShowProfile(u, "show_profile", <<>>, <<>>)
    /\ UNCHANGED <<remote, tasks, user_locks>>

(***************************************************************************)
(* handlers/profile.py: update_media_finish, services/media.py:            *)
(* replace_all_media.                                                      *)
(***************************************************************************)
MediaEditHandlers == {"update_media", "continue_media"}

\* data = await state.get_data(); data["media"]
update_media_finish_data(i) ==
    /\ tasks[i].pc = "fin"
    /\ tasks[i].h \in MediaEditHandlers
    /\ LET d == data[tasks[i].u] IN
       IF has_key(d, "media")
       THEN /\ tasks' = [tasks EXCEPT ![i].pc = "rm_get", ![i].d = d]
            /\ UNCHANGED out
       ELSE EndTask(i, <<>>, <<>>, TRUE)
    /\ UNCHANGED <<state, data, remote, user_locks, nfiles>>

\* except httpx.HTTPStatusError in update_media_finish: one message by status,
\* the handler returns; any other exception leaves it
update_media_finish_failed(i, call, a) ==
    EndTask(i, <<Answered(call, a)>>,
            CASE a = "s400" -> <<"invalid_media_files">>
              [] a = "s413" -> <<"media_files_too_large">>
              [] a = "net" -> <<>>
              [] OTHER -> <<"error_updating_media">>,
            a = "net")

\* the files of a set in the order the remote side lists them (by id)
RECURSIVE ListMedia(_)
ListMedia(ids) ==
    IF ids = {} THEN <<>>
    ELSE LET m == CHOOSE x \in ids : \A y \in ids : x <= y
         IN <<m>> \o ListMedia(ids \ {m})

\* replace_all_media: current_media = await get_user_media(id)
replace_all_media_get(i) ==
    /\ tasks[i].pc = "rm_get"
    /\ \E a \in {"ok", "s500", "net"} :
         IF a = "ok"
         THEN /\ tasks' = [tasks EXCEPT
                             ![i].pc = "rm_del",
                             ![i].cur = ListMedia(remote[tasks[i].u].media),
                             ![i].calls = @ \o <<Call("users/me", 0), Call("media", 0)>>]
              /\ UNCHANGED out
         ELSE update_media_finish_failed(i, Call("users/me", 0), a)
    /\ UNCHANGED <<state, data, remote, user_locks, nfiles>>

\* answers of DELETE /v1/media/{id}: of the error statuses only the refusal
\* to delete the media an account had from the start is modelled
DeleteAnswers(id) == {"ok", "net"} \cup (IF id = OldFile THEN {"s500"} ELSE {})

\* replace_all_media: one turn of the delete loop; an error status of a
\* DELETE is suppressed, a network failure is not
replace_all_media_delete(i) ==
    /\ tasks[i].pc = "rm_del"
    /\ tasks[i].cur # <<>>
    /\ LET u == tasks[i].u
           call == Call("media:delete", 0)
       IN \E a \in DeleteAnswers(Head(tasks[i].cur)) :
            IF a = "net"
            THEN EndTask(i, <<Answered(call, a)>>, <<>>, TRUE) /\ UNCHANGED remote
            ELSE /\ remote' = [remote EXCEPT ![u].media =
                                 IF a = "ok" THEN @ \ {Head(tasks[i].cur)} ELSE @]
                 /\ tasks' = [tasks EXCEPT ![i].cur = Tail(@),
                                           ![i].calls = @ \o <<Answered(call, a)>>]
                 /\ UNCHANGED out
    /\ UNCHANGED <<state, data, user_locks, nfiles>>

\* replace_all_media: return await batch_add_media(id, media_data), then
\* "Your profile has been updated"
replace_all_media_add(i) ==
    /\ tasks[i].pc = "rm_del"
    /\ tasks[i].cur = <<>>
    /\ LET u == tasks[i].u
           call == Call("media/batch-add", Len(tasks[i].d["media"]))
       IN \E a \in {"ok", "s400", "s413", "s500", "net"} :
            IF a = "ok"
            THEN /\ remote' = [remote EXCEPT ![u].media = @ \cup FileIds(tasks[i].d["media"])]
                 /\ Goto(i, "prof", <<call>>, <<"profile_updated">>)
                 /\ UNCHANGED out
            ELSE update_media_finish_failed(i, call, a) /\ UNCHANGED remote
    /\ UNCHANGED <<state, data, user_locks, nfiles>>

\* show_profile at the end of update_media_finish: the try block up to the
\* profile card and the buttons
update_media_finish_profile(i) ==
    /\ tasks[i].pc = "prof"
    /\ LET r == remote[tasks[i].u] IN
       \E a \in ProfileAnswers(r) :
         IF a = "ok"
         THEN Goto(i, "prof_state", ProfileCalls(r, a), ProfileMsgs(a)) /\ UNCHANGED out
         ELSE EndTask(i, ProfileCalls(r, a), ProfileMsgs(a), ProfileRaises(a))
    /\ UNCHANGED <<state, data, remote, user_locks, nfiles>>

\* show_profile: set_state(AppStates.profile)
update_media_finish_state(i) ==
    /\ tasks[i].pc = "prof_state"
    /\ state' = [state EXCEPT ![tasks[i].u] = "profile"]
    /\ Goto(i, "prof_clear", <<>>, <<>>)
    /\ UNCHANGED <<data, remote, user_locks, out, nfiles>>

\* show_profile: clear_state(state, except_locale=True)
update_media_finish_clear(i) ==
    /\ tasks[i].pc = "prof_clear"
    /\ data' = [data EXCEPT ![tasks[i].u] = clear_state(@, TRUE)]
    /\ nfiles' = [nfiles EXCEPT ![tasks[i].u] = Received(@, clear_state(data[tasks[i].u], TRUE))]
    /\ EndTask(i, <<>>, <<>>, FALSE)
    /\ UNCHANGED <<state, remote, user_locks>>


(***************************************************************************)
(* handlers/menu.py and handlers/profile.py: settings, profile and         *)
(* preferences editing.                                                    *)
(***************************************************************************)
\* a handler that sends one prompt and sets the state tag
Prompt(u, h, msg, st) ==
    /\ Finish(u, h, st, data[u], <<>>, <<msg>>, FALSE)
    /\ UNCHANGED <<remote, tasks, user_locks>>

show_settings(u) ==
    /\ AllIdle
    /\ Route(state[u], "text", "Settings") = "show_settings"
    /\ Prompt(u, "show_settings", "settings", "settings")

back_to_settings(u) ==
    /\ AllIdle
    /\ Route(state[u], "text", "Back") = "back_to_settings"
    /\ Prompt(u, "back_to_settings", "settings", "settings")

\* update_preferences(with_keyboard): set_state(preferences), clear_state
update_preferences(u) ==
    /\ AllIdle
    /\ Route(state[u], "text", "Search settings") = "update_preferences"
    /\ Finish(u, "update_preferences", "preferences", clear_state(data[u], TRUE),
              <<>>, <<"search_settings">>, FALSE)
    /\ UNCHANGED <<remote, tasks, user_locks>>

\* the buttons of the profile and preferences screens that only prompt
StartButtons ==
    {<<"Name", "update_name_start", "enter_name", "update_name">>,
     <<"Birth date", "update_birth_date_start", "ask_birth_date", "update_age">>,
     <<"Gender", "update_gender_start", "select_gender", "update_gender">>,
     <<"Bio", "update_bio_start", "ask_bio", "update_bio">>,
     <<"Location", "update_location_start", "ask_location", "update_location">>,
     <<"Media", "update_media_start", "ask_media", "update_media">>,
     <<"Gender preferences", "update_gender_preferences_start", "ask_preferred_gender",
       "update_gender_preferences">>,
     <<"Age preferences", "update_age_preferences_start", "ask_age_preferences",
       "update_age_preferences">>}

update_field_start(u) ==
    /\ AllIdle
    /\ \E b \in StartButtons :
         /\ Route(state[u], "text", b[1]) = b[2]
         /\ Prompt(u, b[2], b[3], b[4])

\* answers of PUT /v1/users/me and PUT /v1/preferences
PutAnswers == {"ok", "s500", "net"}

\* update_user(...) of a text of n characters, without a try: on success
\* "Your profile has been updated" and show_profile, otherwise the exception
\* leaves the handler
UpdateUser(u, h, n) ==
    \E a \in PutAnswers :
      IF a = "ok"
      THEN ShowProfile(u, h, <<Call("users/me:put", n)>>, <<"profile_updated">>)
      ELSE Finish(u, h, state[u], data[u], <<Answered(Call("users/me:put", n), a)>>,
                  <<>>, TRUE)

update_name(u) ==
    /\ AllIdle
    /\ \E t \in NameTexts :
         /\ Route(state[u], "text", t) = "update_name"
         /\ IF validate_name(t).ok
            THEN UpdateUser(u, "update_name", TextLen(t))
            ELSE Finish(u, "update_name", state[u], data[u], <<>>,
                        <<validate_name(t).msg>>, FALSE)
    /\ UNCHANGED <<remote, tasks, user_locks>>

update_birth_date(u) ==
    /\ AllIdle
    /\ \E t \in BirthDateTexts :
         /\ Route(state[u], "text", t) = "update_birth_date"
         /\ IF validate_birth_date(t).ok
            THEN UpdateUser(u, "update_birth_date", TextLen(t))
            ELSE Finish(u, "update_birth_date", state[u], data[u], <<>>,
                        <<validate_birth_date(t).msg>>, FALSE)
    /\ UNCHANGED <<remote, tasks, user_locks>>

\* "Clear" (CLEAR_TXT) stands for no bio
update_bio(u) ==
    /\ AllIdle
    /\ \E t \in {"Hello", "Bio255", "Bio256", "Clear"} :
         /\ Route(state[u], "text", t) = "update_bio"
         /\ LET bio == IF t = "Clear" THEN None ELSE t IN
            IF validate_bio(bio).ok
            THEN UpdateUser(u, "update_bio", IF bio = None THEN 0 ELSE TextLen(bio))
            ELSE Finish(u, "update_bio", state[u], data[u], <<>>,
                        <<validate_bio(bio).msg>>, FALSE)
    /\ UNCHANGED <<remote, tasks, user_locks>>

update_age_preferences(u) ==
    /\ AllIdle
    /\ \E t \in AgeRangeTexts \cup {"Clear"} :
         /\ Route(state[u], "text", t) = "update_age_preferences"
         /\ LET v == validate_preference_age_string(t) IN
            IF t = "Clear" \/ v.ok
            THEN \E a \in PutAnswers :
                   IF a = "ok"
                   THEN Finish(u, "update_age_preferences", "preferences",
                               clear_state(data[u], TRUE), <<Call("preferences:put", 0)>>,
                               <<"search_settings_updated">>, FALSE)
                   ELSE Finish(u, "update_age_preferences", state[u], data[u],
                               <<Answered(Call("preferences:put", 0), a)>>, <<>>, TRUE)
            ELSE Finish(u, "update_age_preferences", state[u], data[u], <<>>,
                        <<v.msg>>, FALSE)
    /\ UNCHANGED <<remote, tasks, user_locks>>


(***************************************************************************)
(* handlers/search.py: search and rewind; services/match.py.               *)
(***************************************************************************)
\* the profiles the remote side answers with: the best match, and the
\* rewind history by offset
BestMatch == "m1"
RewindAt(offset) == IF offset = 0 THEN "r1" ELSE IF offset = 1 THEN "r2" ELSE "r3"

\* what a GET of the match service can be answered with
MatchAnswers == {"ok", "s400", "s404", "s500", "net"}

\* services/match.py get_best_match: what the caller sees for an answer.
\* 404 is "no match"; every other failure is turned into a ValueError.
get_best_match(a) ==
    CASE a = "ok" -> "user"
      [] a = "s404" -> "none"
      [] OTHER -> "ValueError"

\* services/match.py get_rewinds: 404 is the empty list; every other failure,
\* the 400 of an exceeded rewind limit included, is turned into a ValueError.
get_rewinds(a) ==
    CASE a = "ok" -> "users"
      [] a = "s404" -> "empty"
      [] OTHER -> "ValueError"

\* the session keys of the profile being shown
MatchKeys_mutant(m, idx) ==
    [k \in {"match_id", "rewind_index"} |->
       IF k = "match_id" THEN m ELSE IF idx > 0 THEN idx - 1 ELSE 0]

MatchKeys(m, idx) ==
    [k \in {"match_id", "rewind_index"} |-> IF k = "match_id" THEN m ELSE idx]

\* get_media(match.id), get_profile_card(match, media, user) and the card
\* sent: the calls issued and whether an exception left the handler
CardAnswers == {"ok", "media_s500", "place_net"}

CardCalls(m, a) ==
    IF a = "media_s500" THEN <<Answered(CallTo("media", m), "s500")>>
    ELSE <<CallTo("media", m),
           Answered(Call("places/name", 0), IF a = "place_net" THEN "net" ELSE "ok")>>

\* search(message, state) run to its end by an atomic handler h that has
\* already issued calls0 and sent msgs0
SearchBody(u, h, calls0, msgs0) ==
    LET d1 == update_data(data[u], MatchKeys(None, 0))
        me == Call("users/me", 0)
        find == Call("matches/find", 0)
    IN \E a \in MeAnswers(remote[u]) :
         IF a \in {"s404", "s500"}
         THEN Finish(u, h, "search", d1, calls0 \o <<Answered(me, a)>>,
                     msgs0 \o <<"error_fetching_data">>, FALSE)
         ELSE IF a = "net"
         THEN Finish(u, h, state[u], d1, calls0 \o <<Answered(me, a)>>, msgs0, TRUE)
         ELSE \E b \in MatchAnswers :
                IF get_best_match(b) = "ValueError"
                THEN Finish(u, h, state[u], d1, calls0 \o <<me, Answered(find, b)>>, msgs0, TRUE)
                ELSE IF get_best_match(b) = "none"
                THEN Finish(u, h, "search", d1, calls0 \o <<me, Answered(find, b)>>,
                            msgs0 \o <<"no_one_left">>, FALSE)
                ELSE \E c \in CardAnswers :
                       IF c = "ok"
                       THEN Finish(u, h, "search", update_data(d1, Kv("match_id", BestMatch)),
                                   calls0 \o <<me, Answered(find, b)>> \o CardCalls(BestMatch, c),
                                   msgs0 \o <<"profile_card">>, FALSE)
                       ELSE Finish(u, h, state[u], d1,
                                   calls0 \o <<me, Answered(find, b)>> \o CardCalls(BestMatch, c),
                                   msgs0, TRUE)

\* search_with_keyboard: the keyboard, then search
search(u) ==
    /\ AllIdle
    /\ Route(state[u], "text", "Watch profiles") = "search_with_keyboard"
    /\ SearchBody(u, "search_with_keyboard", <<>>, <<"keyboard">>)
    /\ UNCHANGED <<remote, tasks, user_locks>>

\* answers of GET /v1/rewinds at an offset: the history ends, or the limit
\* is exceeded (400), or the call fails
RewindAnswers(idx) ==
    {"s400", "s404", "s500", "net"} \cup (IF idx < MaxRewind THEN {"ok"} ELSE {})

\* rewind_with_keyboard ("Rewind": the keyboard first) and rewind ("<<")
rewind(u) ==
    /\ AllIdle
    /\ \E t \in {"Rewind", "<<"} :
         /\ Route(state[u], "text", t) \in {"rewind_with_keyboard", "rewind"}
         /\ LET h == Route(state[u], "text", t)
                pre == IF h = "rewind_with_keyboard" THEN <<"rewinding">> ELSE <<>>
                me == Call("users/me", 0)
                rewind_index == get_int(data[u], "rewind_index")
                rw == Call("rewinds", rewind_index)
            IN \E a \in MeAnswers(remote[u]) :
                 IF a # "ok"
                 THEN Finish(u, h, state[u], data[u], <<Answered(me, a)>>, pre, TRUE)
                 ELSE \E b \in RewindAnswers(rewind_index) :
                        LET r == get_rewinds(b) IN
                        IF r = "HTTPStatusError"
                        THEN Finish(u, h, state[u], data[u], <<me, Answered(rw, b)>>,
                                    pre \o (IF b = "s400" THEN <<"rewind_limit_exceeded">>
                                            ELSE <<>>),
                                    TRUE)
                        ELSE IF r = "ValueError"
                        THEN Finish(u, h, state[u], data[u], <<me, Answered(rw, b)>>, pre, TRUE)
                        ELSE IF r = "empty"
                        THEN Finish(u, h, "menu", show_menu_data(data[u]), <<me, Answered(rw, b)>>,
                                    pre \o <<"no_more_rewinds", "menu">>, FALSE)
                        ELSE \E c \in CardAnswers :
                               IF c = "ok"
                               THEN Finish(u, h, state[u],
                                           update_data(data[u],
                                                       MatchKeys(RewindAt(rewind_index),
                                                                 rewind_index + 1)),
                                           <<me, Answered(rw, b)>> \o CardCalls(RewindAt(rewind_index), c),
                                           pre \o <<"profile_card">>, FALSE)
                               ELSE Finish(u, h, state[u], data[u],
                                           <<me, Answered(rw, b)>> \o CardCalls(RewindAt(rewind_index), c), pre, TRUE)
    /\ UNCHANGED <<remote, tasks, user_locks>>


(***************************************************************************)
(* handlers/likes.py: show_likes; handlers/matches.py: show_matches;       *)
(* handlers/search.py: react.                                              *)
(***************************************************************************)
\* the profiles the remote side answers with: the next like candidate, and
\* the matches by offset
NextLike == "l1"
MatchAt(index) == IF index = 0 THEN "x1" ELSE "x2"

\* what a GET of a list of the match service can be answered with
ListAnswers == {"ok", "s404", "s500", "net"}

\* services/match.py get_likes: 404 is the empty list; every other failure
\* is turned into a ValueError
get_likes(a) ==
    CASE a = "ok" -> "users"
      [] a = "s404" -> "empty"
      [] OTHER -> "ValueError"

\* services/match.py get_matches: as get_likes
get_matches(a) ==
    CASE a = "ok" -> "users"
      [] a = "s404" -> "empty"
      [] OTHER -> "ValueError"

\* show_likes(message, state) run to its end by an atomic handler h
LikesBody(u, h, calls0, msgs0) ==
    LET d1 == update_data(data[u], MatchKeys(None, 0))
        me == Call("users/me", 0)
        likes == Call("likes", 0)
    IN \E a \in MeAnswers(remote[u]) :
         IF a # "ok"
         THEN Finish(u, h, state[u], d1, calls0 \o <<Answered(me, a)>>, msgs0, TRUE)
         ELSE \E b \in ListAnswers :
                IF get_likes(b) = "ValueError"
                THEN Finish(u, h, state[u], d1, calls0 \o <<me, Answered(likes, b)>>, msgs0, TRUE)
                ELSE IF get_likes(b) = "empty"
                THEN Finish(u, h, "menu", show_menu_data(d1), calls0 \o <<me, Answered(likes, b)>>,
                            msgs0 \o <<"no_likes_found", "menu">>, FALSE)
                ELSE \E c \in CardAnswers :
                       IF c = "ok"
                       THEN Finish(u, h, "likes", update_data(d1, Kv("match_id", NextLike)),
                                   calls0 \o <<me, Answered(likes, b)>> \o CardCalls(NextLike, c),
                                   msgs0 \o <<"profile_card">>, FALSE)
                       ELSE Finish(u, h, state[u], d1,
                                   calls0 \o <<me, Answered(likes, b)>> \o CardCalls(NextLike, c),
                                   msgs0, TRUE)

\* show_likes_with_keyboard: the keyboard, then show_likes
show_likes_with_keyboard(u) ==
    /\ AllIdle
    /\ Route(state[u], "text", "Likes") = "show_likes_with_keyboard"
    /\ LikesBody(u, "show_likes_with_keyboard", <<>>, <<"likes">>)
    /\ UNCHANGED <<remote, tasks, user_locks>>

\* the index show_matches asks for when the message text is t
MatchIndex(d, t) ==
    LET index == IF t = "Matches" THEN 0 ELSE get_int(d, "index") IN
    IF t = "Left" THEN index + 1
    ELSE IF t = "Right" /\ index > 0 THEN index - 1
    ELSE index

\* answers of GET /v1/matches at an offset: past the last match the list is
\* empty
MatchesAnswers(index) ==
    {"s404", "s500", "net"} \cup (IF index < MaxMatches THEN {"ok"} ELSE {})

\* show_matches(message, state) for the message text t, run to its end by
\* an atomic handler h
MatchesBody(u, h, t, calls0, msgs0) ==
    LET me == Call("users/me", 0)
        index == MatchIndex(data[u], t)
        matches == Call("matches", index)
    IN \E a \in MeAnswers(remote[u]) :
         IF a # "ok"
         THEN Finish(u, h, state[u], data[u], calls0 \o <<Answered(me, a)>>, msgs0, TRUE)
         ELSE \E b \in MatchesAnswers(index) :
                IF get_matches(b) = "HTTPStatusError"
                THEN Finish(u, h, "menu", show_menu_data(data[u]),
                            calls0 \o <<me, Answered(matches, b)>>,
                            msgs0 \o <<"failed_to_fetch_matches", "menu">>, FALSE)
                ELSE IF get_matches(b) = "ValueError"
                THEN Finish(u, h, state[u], data[u], calls0 \o <<me, Answered(matches, b)>>,
                            msgs0, TRUE)
                ELSE IF get_matches(b) = "empty"
                THEN Finish(u, h, "menu", show_menu_data(data[u]),
                            calls0 \o <<me, Answered(matches, b)>>,
                            msgs0 \o <<"no_matches_found", "menu">>, FALSE)
                ELSE \E c \in CardAnswers :
                       IF c = "ok"
                       THEN Finish(u, h, "matches",
                                   update_data(update_data(data[u], Kv("match_id", MatchAt(index))),
                                               Kv("index", index)),
                                   calls0 \o <<me, Answered(matches, b)>>
                                          \o CardCalls(MatchAt(index), c),
                                   msgs0 \o <<"profile_card", "start_chat", "matches">>, FALSE)
                       ELSE Finish(u, h, state[u], data[u],
                                   calls0 \o <<me, Answered(matches, b)>>
                                          \o CardCalls(MatchAt(index), c),
                                   msgs0, TRUE)

\* "Matches" in menu, the arrows in matches
show_matches(u) ==
    /\ AllIdle
    /\ \E t \in {"Matches", "Left", "Right"} :
         /\ Route(state[u], "text", t) = "show_matches"
         /\ MatchesBody(u, "show_matches", t, <<>>, <<>>)
    /\ UNCHANGED <<remote, tasks, user_locks>>

\* answers of PUT /v1/reactions
ReactionAnswers == {"ok", "s403", "s404", "s500", "net"}

\* services/match.py create_or_update_reaction: every failure is turned
\* into a ValueError
create_or_update_reaction(a) == IF a = "ok" THEN "reaction" ELSE "ValueError"

\* the refresh react ends with: show_likes in likes, show_matches in
\* matches, search otherwise
Refresh_mutant(u, t, calls0, msgs0) == SearchBody(u, "react", calls0, msgs0)
Refresh(u, t, calls0, msgs0) ==
    IF state[u] = "likes" THEN LikesBody(u, "react", calls0, msgs0)
    ELSE IF state[u] = "matches" THEN MatchesBody(u, "react", t, calls0, msgs0)
    ELSE SearchBody(u, "react", calls0, msgs0)

\* a react that posts its reaction to the best match whatever card is shown
react_mutant(u) ==
    /\ AllIdle
    /\ \E t \in {"Like", "Dislike"} : Route(state[u], "text", t) = "react"
    /\ get_value(data[u], "match_id") # None
    /\ Finish(u, "react", state[u], data[u], <<CallTo("reactions", BestMatch)>>, <<>>, FALSE)
    /\ UNCHANGED <<remote, tasks, user_locks>>

\* a like or a dislike in search, likes or matches
react(u) ==
    /\ AllIdle
    /\ \E t \in {"Like", "Dislike"} :
         /\ Route(state[u], "text", t) = "react"
         /\ LET match_id == get_value(data[u], "match_id") IN
            IF match_id = None
            THEN Finish(u, "react", state[u], data[u], <<>>, <<>>, FALSE)
            ELSE LET put == CallTo("reactions", match_id) IN
                 \E a \in ReactionAnswers :
                   LET r == create_or_update_reaction(a) IN
                   IF r = "ValueError"
                   THEN Finish(u, "react", state[u], data[u], <<Answered(put, a)>>, <<>>, TRUE)
                   ELSE IF r = "HTTPStatusError"
                   THEN Refresh(u, t, <<Answered(put, a)>>,
                                <<IF a \in {"s403", "s404"} THEN "user_not_found"
                                  ELSE "something_went_wrong">>)
                   ELSE Refresh(u, t, <<put>>, <<>>)
    /\ UNCHANGED <<remote, tasks, user_locks>>


(***************************************************************************)
(* handlers/menu.py: report; services/report.py.                           *)
(***************************************************************************)
report_mutant(u) ==
    /\ AllIdle
    /\ Route(state[u], "text", "Report") = "report"
    /\ Finish(u, "report", "report_reason", update_data(data[u], Kv("match_id", NextLike)),
              <<>>, <<"ask_report_reason">>, FALSE)
    /\ UNCHANGED <<remote, tasks, user_locks>>

report(u) ==
    /\ AllIdle
    /\ Route(state[u], "text", "Report") = "report"
    /\ Prompt(u, "report", "ask_report_reason", "report_reason")

\* the reasons tried: a reason, a blank one, one of 501 characters
ReasonTexts == {"Spam", "Blank", "Reason501"}

\* len(reason.strip())
ReasonLen(t) ==
    CASE t = "Blank" -> 0
      [] t = "Reason501" -> 501
      [] OTHER -> 4

\* answers of POST /v1/reports
ReportAnswers == {"ok", "s409", "s429", "s500", "net"}

\* services/report.py create_report: the reason is checked before the call
\* ("call" is the request going out); every failure of the call, and a
\* rejected reason, is a ValueError
create_report_check(t) ==
    IF ReasonLen(t) = 0 \/ ReasonLen(t) > report_reason_max_length THEN "ValueError" ELSE "call"

create_report(a) == IF a = "ok" THEN "report" ELSE "ValueError"

\* the text that follows "Report"
report_reason(u) ==
    /\ AllIdle
    /\ \E t \in ReasonTexts :
         /\ Route(state[u], "text", t) = "report_reason"
         /\ LET match_id == get_value(data[u], "match_id") IN
            IF match_id = None
            THEN Finish(u, "report_reason", state[u], data[u], <<>>, <<>>, FALSE)
            ELSE IF create_report_check(t) = "ValueError"
            THEN Finish(u, "report_reason", state[u], data[u], <<>>, <<>>, TRUE)
            ELSE LET post == [CallTo("reports", match_id) EXCEPT !.n = ReasonLen(t)] IN
                 \E a \in ReportAnswers :
                   IF create_report(a) = "ValueError"
                   THEN Finish(u, "report_reason", state[u], data[u],
                               <<Answered(post, a)>>, <<>>, TRUE)
                   ELSE Finish(u, "report_reason", "menu", show_menu_data(data[u]),
                               <<post>>, <<"user_reported", "menu">>, FALSE)
    /\ UNCHANGED <<remote, tasks, user_locks>>

(***************************************************************************)
(* handlers/menu.py: deactivate, activate, delete, language.               *)
(***************************************************************************)
\* the settings buttons that only prompt, and "No" in a confirmation
\* (show_settings)
SettingsButtons ==
    {<<"Deactivate", "deactivate_account", "confirm_deactivate", "deactivate_confirm">>,
     <<"Delete account", "delete_account_start", "confirm_delete", "delete_confirm">>,
     <<"Language", "change_language_start", "choose_language", "update_ui_language">>,
     <<"No", "deactivate_account_reject", "settings", "settings">>,
     <<"No", "delete_account_reject", "settings", "settings">>}

settings_button(u) ==
    /\ AllIdle
    /\ \E b \in SettingsButtons :
         /\ Route(state[u], "text", b[1]) = b[2]
         /\ Prompt(u, b[2], b[3], b[4])

\* answers of PUT and DELETE /v1/users/me for a remote record r
AccountAnswers(r) == IF r.account = "none" THEN {"s404", "net"} ELSE {"ok", "s500", "net"}

deactivate_account_confirm_mutant(u) ==
    /\ AllIdle
    /\ Route(state[u], "text", "Deactivate") = "deactivate_account"
    /\ remote' = [remote EXCEPT ![u].account = "inactive"]
    /\ Finish(u, "deactivate_account_confirm", "deactivated", data[u],
              <<CallTo("users/me:put", "is_active=False")>>, <<"account_deactivated">>, FALSE)
    /\ UNCHANGED <<tasks, user_locks>>

\* "Yes" in deactivate_confirm: update_user(is_active=False), then
\* activate_account_start
deactivate_account_confirm(u) ==
    /\ AllIdle
    /\ Route(state[u], "text", "Yes") = "deactivate_account_confirm"
    /\ LET put == CallTo("users/me:put", "is_active=False") IN
       \E a \in AccountAnswers(remote[u]) :
         IF a = "ok"
         THEN /\ remote' = [remote EXCEPT ![u].account = "inactive"]
              /\ Finish(u, "deactivate_account_confirm", "deactivated", data[u],
                        <<put>>, <<"account_deactivated">>, FALSE)
         ELSE /\ UNCHANGED remote
              /\ Finish(u, "deactivate_account_confirm", state[u], data[u],
                        <<Answered(put, a)>>, <<>>, TRUE)
    /\ UNCHANGED <<tasks, user_locks>>

\* "Activate my account" in deactivated: update_user(is_active=True), then
\* show_menu
activate_account(u) ==
    /\ AllIdle
    /\ Route(state[u], "text", "Activate my account") = "activate_account"
    /\ LET put == CallTo("users/me:put", "is_active=True") IN
       \E a \in AccountAnswers(remote[u]) :
         IF a = "ok"
         THEN /\ remote' = [remote EXCEPT ![u].account = "active"]
              /\ Finish(u, "activate_account", "menu", show_menu_data(data[u]),
                        <<put>>, <<"account_activated", "menu">>, FALSE)
         ELSE /\ UNCHANGED remote
              /\ Finish(u, "activate_account", state[u], data[u],
                        <<Answered(put, a)>>, <<>>, TRUE)
    /\ UNCHANGED <<tasks, user_locks>>

\* "Yes" in delete_confirm: delete_user, then start_registration_start
delete_account_confirm(u) ==
    /\ AllIdle
    /\ Route(state[u], "text", "Yes") = "delete_account_confirm"
    /\ LET del == Call("users/me:delete", 0) IN
       \E a \in AccountAnswers(remote[u]) :
         IF a = "ok"
         THEN /\ remote' = [remote EXCEPT ![u] = NoRemote]
              /\ Finish(u, "delete_account_confirm", "deleted", data[u],
                        <<del>>, <<"account_deleted">>, FALSE)
         ELSE /\ UNCHANGED remote
              /\ Finish(u, "delete_account_confirm", state[u], data[u],
                        <<Answered(del, a)>>, <<>>, TRUE)
    /\ UNCHANGED <<tasks, user_locks>>

\* a language in update_ui_language: the locale is stored in the session,
\* then update_user(ui_language=...), then show_settings
change_language(u) ==
    /\ AllIdle
    /\ \E t \in {"Russian"} :
         /\ Route(state[u], "text", t) = "change_language"
         /\ LET d1 == set_locale(data[u], LANGUAGES(t))
                put == CallTo("users/me:put", LANGUAGES(t))
            IN \E a \in AccountAnswers(remote[u]) :
                 IF a = "ok"
                 THEN /\ remote' = [remote EXCEPT ![u].ui_language = LANGUAGES(t)]
                      /\ Finish(u, "change_language", "settings", d1,
                                <<put>>, <<"settings">>, FALSE)
                 ELSE /\ UNCHANGED remote
                      /\ Finish(u, "change_language", state[u], d1,
                                <<Answered(put, a)>>, <<>>, TRUE)
    /\ UNCHANGED <<tasks, user_locks>>


(***************************************************************************)
(* The sequential dialog of one user: every update is handled to its end   *)
(* before the next one is dispatched.                                      *)
(***************************************************************************)
TaskStep(i) ==
    \/ TLock(i)
    \/ TRead(i)
    \/ TWrite(i)
    \/ TCheck(i)
    \/ TCont(i)
    \/ finish_registration_data(i)
    \/ finish_registration_register(i)
    \/ finish_registration_batch(i)
    \/ finish_registration_preferences(i)
    \/ finish_registration_card(i)
    \/ finish_registration_menu_data(i)
    \/ finish_registration_menu_state(i)
    \/ update_media_finish_data(i)
    \/ replace_all_media_get(i)
    \/ replace_all_media_delete(i)
    \/ replace_all_media_add(i)
    \/ update_media_finish_profile(i)
    \/ update_media_finish_state(i)
    \/ update_media_finish_clear(i)

Next ==
    \/ cmd_start(U1)
    \/ show_menu(U1)
    \/ set_language(U1)
    \/ set_language_invalid(U1)
    \/ set_name(U1)
    \/ set_birth_date(U1)
    \/ set_gender(U1)
    \/ set_gender_invalid(U1)
    \/ skip_bio(U1)
    \/ set_bio(U1)
    \/ set_preferred_gender(U1)
    \/ set_gender_preferences_invalid(U1)
    \/ skip_age_preferences(U1)
    \/ set_age_preferences(U1)
    \/ set_location_by_name(U1)
    \/ set_location_by_name_selected(U1)
    \/ set_location(U1)
    \/ set_location_invalid(U1)
    \/ UploadEvent(U1, FALSE)
    \/ ContinueEvent(U1, FALSE)
    \/ \E i \in TaskIds : TaskStep(i)
    \/ show_settings(U1)
    \/ back_to_settings(U1)
    \/ show_profile(U1)
    \/ update_preferences(U1)
    \/ update_field_start(U1)
    \/ update_name(U1)
    \/ update_birth_date(U1)
    \/ update_bio(U1)
    \/ update_age_preferences(U1)
    \/ search(U1)
    \/ rewind(U1)

Spec == Init /\ [][Next]_vars

(***************************************************************************)
(* The dialog of one user past registration: the menu, browsing (search,   *)
(* likes, matches, rewind, reactions, reports), the settings (profile and  *)
(* preference fields, language, deactivation, deletion).  The registration *)
(* dialog and the media uploads are left to Spec: a user who is sent to    *)
(* registration here stays at its first prompt.                            *)
(***************************************************************************)
(***************************************************************************)
(* The registration dialog with every kind of message a user can send in   *)
(* it: a message no handler of the six routers matches is dropped by the   *)
(* dispatcher.                                                             *)
(***************************************************************************)
unhandled(u) ==
    /\ AllIdle
    /\ \E k \in {"text", "photo", "location"} : Route(state[u], k, "Hello") = "unhandled"
    /\ Finish(u, "unhandled", state[u], data[u], <<>>, <<>>, FALSE)
    /\ UNCHANGED <<remote, tasks, user_locks>>

NextDialog ==
    \/ cmd_start(U1)
    \/ show_menu(U1)
    \/ set_language(U1)
    \/ set_language_invalid(U1)
    \/ set_name(U1)
    \/ set_birth_date(U1)
    \/ set_gender(U1)
    \/ set_gender_invalid(U1)
    \/ skip_bio(U1)
    \/ set_bio(U1)
    \/ set_preferred_gender(U1)
    \/ set_gender_preferences_invalid(U1)
    \/ skip_age_preferences(U1)
    \/ set_age_preferences(U1)
    \/ set_location_by_name(U1)
    \/ set_location_by_name_selected(U1)
    \/ set_location(U1)
    \/ set_location_invalid(U1)
    \/ unhandled(U1)

SpecDialog == Init /\ [][NextDialog]_vars

(***************************************************************************)
(* handlers/profile.py: the gender, gender preference and location         *)
(* sub-flows, and the editing of profile and preferences as a whole.       *)
(***************************************************************************)
update_gender(u) ==
    /\ AllIdle
    /\ \E t \in {"Female"} :
         /\ Route(state[u], "text", t) = "update_gender"
         /\ UpdateUser(u, "update_gender", 0)
    /\ UNCHANGED <<remote, tasks, user_locks>>

\* update_gender_preferences that ends on the profile screen
update_gender_preferences_mutant(u) ==
    /\ AllIdle
    /\ Route(state[u], "text", "Men") = "update_gender_preferences"
    /\ Finish(u, "update_gender_preferences", "profile", clear_state(data[u], TRUE),
              <<Call("preferences:put", 0)>>, <<"search_settings_updated">>, FALSE)
    /\ UNCHANGED <<remote, tasks, user_locks>>

update_gender_preferences(u) ==
    /\ AllIdle
    /\ \E t \in {"Men"} :
         /\ Route(state[u], "text", t) = "update_gender_preferences"
         /\ \E a \in PutAnswers :
              IF a = "ok"
              THEN Finish(u, "update_gender_preferences", "preferences",
                          clear_state(data[u], TRUE), <<Call("preferences:put", 0)>>,
                          <<"search_settings_updated">>, FALSE)
              ELSE Finish(u, "update_gender_preferences", state[u], data[u],
                          <<Answered(Call("preferences:put", 0), a)>>, <<>>, TRUE)
    /\ UNCHANGED <<remote, tasks, user_locks>>

\* a city name typed in update_location: the places found are offered
update_location_by_name(u) ==
    /\ AllIdle
    /\ Route(state[u], "text", "Tashkent") = "update_location_by_name"
    /\ \E a \in {"ok", "empty", "s404", "s500", "net"} :
         Finish(u, "update_location_by_name", state[u], data[u],
                <<Answered(Call("places/search", 0), a)>>,
                CASE a = "ok" -> <<"select_city">>
                  [] a = "empty" -> <<"city_not_found">>
                  [] a = "s404" -> <<"no_cities_found">>
                  [] a = "s500" -> <<"error_searching_cities">>
                  [] OTHER -> <<>>,
                a = "net")
    /\ UNCHANGED <<remote, tasks, user_locks>>

\* set_location_by_name_selected of profile.py: the callback query
\* "place_id:<id>" in update_location; the place details and the update
\* share one try block that catches HTTPStatusError
update_location_selected(u) ==
    /\ AllIdle
    /\ state[u] = "update_location"
    /\ LET h == "update_location_selected"
           details == Call("places/details", 0)
           put == Call("users/me:put", 0)
       IN \E a \in {"ok", "s404", "s500", "net"} :
            IF a # "ok"
            THEN /\ Finish(u, h, state[u], data[u], <<Answered(details, a)>>,
                           CASE a = "s404" -> <<"location_not_found">>
                             [] a = "s500" -> <<"error_updating_location">>
                             [] OTHER -> <<>>,
                           a = "net")
                 /\ UNCHANGED remote
            ELSE \E b \in PutAnswers :
                   IF b = "ok"
                   THEN /\ remote' = [remote EXCEPT ![u].place = TRUE]
                        /\ \E c \in ProfileAnswers(remote'[u]) :
                             Finish(u, h,
                                    IF c = "ok" THEN "profile" ELSE state[u],
                                    IF c = "ok" THEN clear_state(data[u], TRUE) ELSE data[u],
                                    <<details, put>> \o ProfileCalls(remote'[u], c),
                                    <<"profile_updated">> \o ProfileMsgs(c),
                                    ProfileRaises(c))
                   ELSE /\ Finish(u, h, state[u], data[u], <<details, Answered(put, b)>>,
                                  IF b = "net" THEN <<>> ELSE <<"error_updating_location">>,
                                  b = "net")
                        /\ UNCHANGED remote
    /\ UNCHANGED <<tasks, user_locks>>

\* a shared location in update_location: the place of the coordinates is
\* looked up (an error status leaves place_id None), then the update
update_location(u) ==
    /\ AllIdle
    /\ Route(state[u], "location", None) = "update_location"
    /\ LET h == "update_location"
           put == Call("users/me:put", 0)
       IN \E a \in {"ok", "s404", "net"} :
            LET lookup == Answered(Call("places/coordinates", 0), a) IN
            IF a = "net"
            THEN /\ Finish(u, h, state[u], data[u], <<lookup>>, <<>>, TRUE)
                 /\ UNCHANGED remote
            ELSE \E b \in PutAnswers :
                   IF b = "ok"
                   THEN /\ remote' = [remote EXCEPT ![u].place = (a = "ok")]
                        /\ \E c \in ProfileAnswers(remote'[u]) :
                             Finish(u, h,
                                    IF c = "ok" THEN "profile" ELSE state[u],
                                    IF c = "ok" THEN clear_state(data[u], TRUE) ELSE data[u],
                                    <<lookup, put>> \o ProfileCalls(remote'[u], c),
                                    <<"profile_updated">> \o ProfileMsgs(c),
                                    ProfileRaises(c))
                   ELSE /\ Finish(u, h, state[u], data[u], <<lookup, Answered(put, b)>>,
                                  <<>>, TRUE)
                        /\ UNCHANGED remote
    /\ UNCHANGED <<tasks, user_locks>>

NextEdit ==
    \/ cmd_start(U1)
    \/ show_settings(U1)
    \/ back_to_settings(U1)
    \/ show_profile(U1)
    \/ update_preferences(U1)
    \/ update_field_start(U1)
    \/ update_name(U1)
    \/ update_birth_date(U1)
    \/ update_gender(U1)
    \/ update_bio(U1)
    \/ update_gender_preferences(U1)
    \/ update_age_preferences(U1)
    \/ update_location_by_name(U1)
    \/ update_location_selected(U1)
    \/ update_location(U1)
    \/ UploadEvent(U1, FALSE)
    \/ ContinueEvent(U1, FALSE)
    \/ \E i \in TaskIds : TLock(i)
    \/ \E i \in TaskIds : TRead(i)
    \/ \E i \in TaskIds : TWrite(i)
    \/ \E i \in TaskIds : TCheck(i)
    \/ \E i \in TaskIds : TCont(i)
    \/ \E i \in TaskIds : update_media_finish_data(i)
    \/ \E i \in TaskIds : replace_all_media_get(i)
    \/ \E i \in TaskIds : replace_all_media_delete(i)
    \/ \E i \in TaskIds : replace_all_media_add(i)
    \/ \E i \in TaskIds : update_media_finish_profile(i)
    \/ \E i \in TaskIds : update_media_finish_state(i)
    \/ \E i \in TaskIds : update_media_finish_clear(i)

SpecEdit == Init /\ [][NextEdit]_vars

(***************************************************************************)
(* handlers/registration.py: set_age_preferences on the texts "a-b" a user *)
(* types for two integers a and b.  The message is held by a task so that  *)
(* what was typed stays visible until the handler has run.                 *)
(***************************************************************************)
MinAgeInput == 16
MaxAgeInput == 102

\* the integers tried: a range around [min_age, max_age], and one digit,
\* zero and a negative number
AgeInputs == (MinAgeInput .. MaxAgeInput) \cup {0 - 5, 0, 7}

\* the text "a-b"
AgeText(a, b) == str(a) \o <<"-">> \o str(b)

AgeEvent(u) ==
    /\ AllIdle
    /\ Route(state[u], "text", "18-25") = "set_age_preferences"
    /\ \E a, b \in AgeInputs :
         /\ tasks' = [tasks EXCEPT ![FreeSlot] =
                        [IdleTask EXCEPT !.pc = "age", !.h = "set_age_preferences",
                                         !.u = u, !.typed = <<a, b>>]]
         /\ out' = NoOut
    /\ UNCHANGED <<state, data, remote, user_locks, nfiles>>

\* set_age_preferences: the validator, then the keys, the prompt and
\* set_location, or the validator's message
TAge(i) ==
    /\ tasks[i].pc = "age"
    /\ LET u == tasks[i].u
           v == validate_preference_age_parsed(
                    parse_age_range(AgeText(tasks[i].typed[1], tasks[i].typed[2])))
       IN IF v.ok
          THEN /\ state' = [state EXCEPT ![u] = "set_location"]
               /\ data' = [data EXCEPT ![u] = update_data(@, AgePrefs(v.min, v.max))]
               /\ EndTask(i, <<>>, <<"ask_location">>, FALSE)
          ELSE /\ EndTask(i, <<>>, <<v.msg>>, FALSE)
               /\ UNCHANGED <<state, data>>
    /\ UNCHANGED <<remote, user_locks, nfiles>>

NextAge ==
    \/ cmd_start(U1)
    \/ set_language(U1)
    \/ set_name(U1)
    \/ set_birth_date(U1)
    \/ set_gender(U1)
    \/ skip_bio(U1)
    \/ set_bio(U1)
    \/ set_preferred_gender(U1)
    \/ AgeEvent(U1)
    \/ \E i \in TaskIds : TAge(i)

SpecAge == Init /\ [][NextAge]_vars

(***************************************************************************)
(* utils.py: get_profile_card, the location fragment of the caption.       *)
(* Coordinates are positions on one meridian counted in half kilometres,   *)
(* where the haversine distance is the difference of the positions.  The   *)
(* card of a task holds what the handler fetched: whether a viewer is      *)
(* passed (search, likes, matches) or not (the user's own card), the       *)
(* precision flags, the positions and whether the target has a place.      *)
(***************************************************************************)
MaxHalfKm == 42

location_limit_km == 20

\* haversine_distance for two positions, in half kilometres
haversine_distance(x, y) == IF x >= y THEN x - y ELSE y - x

\* int(math.ceil(dist)) in kilometres for a distance in half kilometres
ceil_km(h) == (h + 1) \div 2

\* the characters of a text joined into a string
RECURSIVE Join(_)
Join(s) == IF s = <<>> THEN "" ELSE s[1] \o Join(Tail(s))

\* "{dist} km"
KmText(k) == Join(str(k)) \o " km"

location_str_mutant(c, city) ==
    LET dist == haversine_distance(c.at, c.viewer_at) IN
    IF c.viewer /\ c.viewer_precise /\ c.precise /\ dist <= 2 * location_limit_km
    THEN KmText(ceil_km(dist))
    ELSE IF city # None THEN city ELSE ""

\* location_str of get_profile_card for the card c and the resolved place
\* name (None when there is none)
location_str(c, city) ==
    LET dist == haversine_distance(c.at, c.viewer_at) IN
    IF c.viewer /\ c.viewer_precise /\ c.precise
       /\ dist <= 2 * location_limit_km /\ dist # 0
    THEN KmText(ceil_km(dist))
    ELSE IF city # None THEN city ELSE ""

\* a handler that shows a card has fetched the viewer and the target
CardEvent(u) ==
    /\ AllIdle
    /\ \E t \in {"Watch profiles", "My profile"} :
         LET h == Route(state[u], "text", t) IN
         /\ h \in {"search_with_keyboard", "show_profile"}
         /\ \E vp, p, pl \in BOOLEAN, va \in {0, 2}, at \in 0 .. MaxHalfKm :
              /\ h = "show_profile" => (~vp /\ va = 0)
              /\ tasks' = [tasks EXCEPT ![FreeSlot] =
                             [IdleTask EXCEPT
                                !.pc = "caption", !.h = h, !.u = u,
                                !.card = [viewer |-> h = "search_with_keyboard",
                                          viewer_precise |-> vp, viewer_at |-> va,
                                          precise |-> p, at |-> at, place |-> pl]]]
              /\ out' = NoOut
    /\ UNCHANGED <<state, data, remote, user_locks, nfiles>>

\* get_profile_card: the place name is looked up when the target has a
\* place (an error status is suppressed, a network failure is not), then
\* the caption is built
get_profile_card(i) ==
    /\ tasks[i].pc = "caption"
    /\ LET c == tasks[i].card
           call == Call("places/name", 0)
       IN \E a \in PlaceNameAnswers(c) :
            LET calls == IF a = "none" THEN <<>> ELSE <<Answered(call, a)>> IN
            IF a = "net"
            THEN EndTask(i, calls, <<>>, TRUE)
            ELSE EndTask(i, calls,
                         <<location_str(c, IF a = "ok" THEN "Samarkand" ELSE None)>>, FALSE)
    /\ UNCHANGED <<state, data, remote, user_locks, nfiles>>

NextCard ==
    \/ cmd_start(U1)
    \/ show_settings(U1)
    \/ CardEvent(U1)
    \/ \E i \in TaskIds : get_profile_card(i)

SpecCard == Init /\ [][NextCard]_vars

(***************************************************************************)
(* A message whose from_user is None.  Only handlers whose outcome does    *)
(* not depend on how the dispatcher resolves a session for such a message  *)
(* are taken: cmd_help, which has no state filter and does not use the     *)
(* session, and cmd_start, react and report_reason, which return on their  *)
(* first line.                                                             *)
(***************************************************************************)
NoIdentityTexts == {"/help", "/start", "Like", "Spam"}

no_identity_event(u) ==
    /\ AllIdle
    /\ \E t \in NoIdentityTexts :
         LET h == Route(state[u], "text", t) IN
         /\ h \in {"cmd_help", "cmd_start", "react", "report_reason"}
         /\ out' = Out(None, h, <<>>, IF h = "cmd_help" THEN <<"help">> ELSE <<>>, FALSE)
    /\ UNCHANGED <<state, data, remote, tasks, user_locks, nfiles>>

NextApp ==
    \/ no_identity_event(U1)
    \/ cmd_start(U1)
    \/ show_menu(U1)
    \/ show_settings(U1)
    \/ back_to_settings(U1)
    \/ show_profile(U1)
    \/ update_preferences(U1)
    \/ update_field_start(U1)
    \/ update_name(U1)
    \/ update_birth_date(U1)
    \/ update_bio(U1)
    \/ update_age_preferences(U1)
    \/ search(U1)
    \/ rewind(U1)
    \/ show_likes_with_keyboard(U1)
    \/ show_matches(U1)
    \/ react(U1)
    \/ report(U1)
    \/ report_reason(U1)
    \/ settings_button(U1)
    \/ deactivate_account_confirm(U1)
    \/ activate_account(U1)
    \/ delete_account_confirm(U1)
    \/ change_language(U1)

SpecApp == Init /\ [][NextApp]_vars


(***************************************************************************)
(* Concurrent uploads: the photos and videos of an album arrive as         *)
(* separate updates whose handlers run concurrently, for two users at      *)
(* once.  Each user is in set_media with a complete registration draft or  *)
(* in update_media after the profile screen; no "Continue" is sent and     *)
(* the lists stay below media_max_count, so no finalize runs.              *)
(***************************************************************************)
\* the session data of a registration that has reached set_media
DraftData ==
    update_data(
      update_data(
        [k \in {"locale", "language", "name", "birth_date", "gender", "bio",
                "preferred_gender", "place_id"} |->
           CASE k = "locale" -> "en"
             [] k = "language" -> "en"
             [] k = "name" -> "Anna"
             [] k = "birth_date" -> "2000-05-01"
             [] k = "gender" -> "female"
             [] k = "bio" -> None
             [] k = "preferred_gender" -> "male"
             [] k = "place_id" -> "place1"],
        AgePrefs(0, 0)),
      Coordinates(41, 69, TRUE))

InitUpload ==
    /\ \E st \in [Users -> {"set_media", "update_media"}] :
         /\ state = st
         /\ data = [u \in Users |->
                      IF st[u] = "set_media" THEN DraftData ELSE Kv("locale", "en")]
         /\ remote = [u \in Users |->
                        IF st[u] = "set_media" THEN NoRemote ELSE ExistingRemote]
    /\ tasks = [i \in TaskIds |-> IdleTask]
    /\ user_locks = [r \in Registries |-> EmptyRegistry]
    /\ out = NoOut
    /\ nfiles = [u \in Users |-> 0]

NextUpload ==
    \/ \E u \in Users : UploadEvent(u, TRUE)
    \/ \E i \in TaskIds : TLock(i)
    \/ \E i \in TaskIds : TRead(i)
    \/ \E i \in TaskIds : TWrite(i)
    \/ \E i \in TaskIds : TCheck(i)

SpecUpload == InitUpload /\ [][NextUpload]_vars


(***************************************************************************)
(* Concurrent uploads over a session store that can fail: the read or the  *)
(* write inside "async with lock" raises, the context manager releases     *)
(* the lock and the exception leaves the handler.  asyncio.Lock wakes its  *)
(* waiters in the order they arrived, and the event loop runs every        *)
(* handler that can go on.                                                 *)
(***************************************************************************)
\* a handler that leaves the locked span on an exception without releasing
TFails_mutant(i) ==
    /\ tasks[i].pc \in {"read", "write"}
    /\ EndTask(i, <<>>, <<>>, TRUE)
    /\ UNCHANGED <<state, data, remote, nfiles, user_locks>>

TFails(i) ==
    /\ tasks[i].pc \in {"read", "write"}
    /\ user_locks' = [user_locks EXCEPT
                        ![RegistryOf(tasks[i].h)].held[tasks[i].lock] = 0]
    /\ EndTask(i, <<>>, <<>>, TRUE)
    /\ UNCHANGED <<state, data, remote, nfiles>>

NextLock ==
    \/ UploadEvent(U1, TRUE)
    \/ \E i \in TaskIds : TLock(i)
    \/ \E i \in TaskIds : TRead(i)
    \/ \E i \in TaskIds : TWrite(i)
    \/ \E i \in TaskIds : TFails(i)
    \/ \E i \in TaskIds : TCheck(i)

SpecLock ==
    /\ InitUpload
    /\ [][NextLock]_vars
    /\ \A i \in TaskIds :
         /\ SF_vars(TLock(i))
         /\ WF_vars(TRead(i))
         /\ WF_vars(TWrite(i))
         /\ WF_vars(TCheck(i))

(***************************************************************************)
(* An album at the end of the registration: the user has already sent      *)
(* files one by one and is in set_media; the events that follow (photos,   *)
(* videos, "Continue") are handled concurrently, and the handlers go on    *)
(* into the finalize step.                                                 *)
(***************************************************************************)
\* the files already in the pending list when the album arrives
AlbumStarts == {media_max_count - 2, media_max_count - 1}

Uploaded(n) == [k \in 1 .. n |-> File(k, "image", 0)]

InitAlbum ==
    /\ \E n \in AlbumStarts :
         /\ state = [u \in Users |-> IF u = U1 THEN "set_media" ELSE NoState]
         /\ data = [u \in Users |->
                      IF u # U1 THEN EmptyData
                      ELSE update_data(DraftData, Kv("media", Uploaded(n)))]
         /\ remote = [u \in Users |-> NoRemote]
         /\ nfiles = [u \in Users |-> IF u = U1 THEN n ELSE 0]
    /\ tasks = [i \in TaskIds |-> IdleTask]
    /\ user_locks = [r \in Registries |-> EmptyRegistry]
    /\ out = NoOut

\* a photo or a video of the album: handled while other handlers run
AlbumEvent(u) == IdleSlots # {} /\ nfiles[u] < MaxUploads /\ DispatchUpload(u)

NextAlbum ==
    \/ AlbumEvent(U1)
    \/ ContinueEvent(U1, TRUE)
    \/ \E i \in TaskIds : TLock(i)
    \/ \E i \in TaskIds : TRead(i)
    \/ \E i \in TaskIds : TWrite(i)
    \/ \E i \in TaskIds : TCheck(i)
    \/ \E i \in TaskIds : TCont(i)
    \/ \E i \in TaskIds : finish_registration_data(i)
    \/ \E i \in TaskIds : finish_registration_register(i)
    \/ \E i \in TaskIds : finish_registration_batch(i)
    \/ \E i \in TaskIds : finish_registration_preferences(i)
    \/ \E i \in TaskIds : finish_registration_card(i)
    \/ \E i \in TaskIds : finish_registration_menu_data(i)
    \/ \E i \in TaskIds : finish_registration_menu_state(i)

SpecAlbum == InitAlbum /\ [][NextAlbum]_vars


(***************************************************************************)
(* Properties.                                                             *)
(***************************************************************************)
Range(s) == {s[k] : k \in 1 .. Len(s)}

\* the operations of a sequence of calls
Ops(calls) == [k \in 1 .. Len(calls) |-> calls[k].op]

IsPrefix(a, b) == Len(a) <= Len(b) /\ \A k \in 1 .. Len(a) : a[k] = b[k]

\* the three calls of the finalize step of registration, in their order
FinalizeOps == <<"auth/register", "media/batch-add", "preferences">>

\* the three finalize calls were issued and all of them succeeded
ThreeSucceeded(calls) ==
    /\ Len(calls) >= 3
    /\ \A k \in 1 .. 3 : calls[k].op = FinalizeOps[k] /\ calls[k].answer = "ok"

\* the handler that finishes in this step, the messages it sent, the state
\* tag of U1 before and after
C1_Step ==
    LET h == out'.handler
        m == Range(out'.msgs)
        s == state[U1]
        t == state'[U1]
    IN /\ (h = "cmd_start" /\ "select_language" \in m) => t = "set_ui_language"
       /\ h = "set_language" => (s = "set_ui_language" /\ t = "set_name")
       /\ (h = "set_name" /\ "ask_birth_date" \in m)
            => (s = "set_name" /\ t = "set_birth_date")
       /\ (h = "set_birth_date" /\ "ask_gender" \in m)
            => (s = "set_birth_date" /\ t = "set_gender")
       /\ h = "set_gender" => (s = "set_gender" /\ t = "set_bio")
       /\ h = "skip_bio" => (s = "set_bio" /\ t = "set_gender_preferences")
       /\ h = "set_preferred_gender"
            => (s = "set_gender_preferences" /\ t = "set_age_preferences")
       /\ h = "skip_age_preferences" => (s = "set_age_preferences" /\ t = "set_location")
       /\ h = "set_location" => (s = "set_location" /\ t = "set_media")
       /\ (h = "continue_registration" /\ ThreeSucceeded(out'.calls))
            => (s = "set_media" /\ t = "menu")

\* C1: a new user who sends /start, "English", a valid name, an adult birth
\* date, "Female", "Skip", "Men", "Skip", shared coordinates, one photo and
\* "Continue", with the three finalize calls succeeding, moves the state tag
\* through set_ui_language, set_name, set_birth_date, set_gender, set_bio,
\* set_gender_preferences, set_age_preferences, set_location, set_media in
\* that order and ends in menu: each of these inputs takes the state tag from
\* its state to the next one, and the "Continue" whose three calls succeed
\* takes it from set_media to menu.
C1_RegistrationPath == [][C1_Step]_vars

\* C2: the finalize calls are issued in the order create-user, media
\* batch-add, preferences-create, and each only after the previous one
\* succeeded: what a registration handler has issued is a prefix of that
\* order (followed at most by the place-name lookup of the profile card),
\* every call before the last one issued was answered with success, and the
\* handler is about to issue a call only when the ones before it succeeded.
C2_FinalizeOrder ==
    /\ \A i \in TaskIds :
         tasks[i].h \in RegistrationHandlers =>
           LET c == tasks[i].calls IN
           /\ IsPrefix(Ops(c), FinalizeOps \o <<"places/name">>)
           /\ \A k \in 1 .. Len(c) : k <= 3 => c[k].answer = "ok"
           /\ tasks[i].pc = "register" => c = <<>>
           /\ tasks[i].pc = "batch" => Ops(c) = <<"auth/register">>
           /\ tasks[i].pc = "prefs" => Ops(c) = <<"auth/register", "media/batch-add">>
    /\ out.handler \in RegistrationHandlers =>
         /\ IsPrefix(Ops(out.calls), FinalizeOps \o <<"places/name">>)
         /\ \A k \in 1 .. Len(out.calls) : k < Len(out.calls) => out.calls[k].answer = "ok"

\* a registration was finalized with all three calls and reached the menu
C2_Witness ==
    /\ out.handler = "continue_registration"
    /\ ThreeSucceeded(out.calls)
    /\ state[U1] = "menu"

\* C3: if any of the three finalize calls fails (error status or network
\* failure), the finalize step is aborted, the generic failure message is
\* sent, the state tag stays set_media with the registration draft still in
\* the session data, and no compensating call is issued.
C3_FinalizeFailure ==
    LET c == out.calls IN
    (/\ out.handler \in RegistrationHandlers
     /\ c # <<>>
     /\ c[Len(c)].op \in Range(FinalizeOps)
     /\ c[Len(c)].answer # "ok")
    => /\ "registration_error" \in Range(out.msgs)
       /\ state[out.u] = "set_media"
       /\ RequiredKeys \subseteq DOMAIN data[out.u]
       /\ IsPrefix(Ops(c), FinalizeOps)

\* C4: if create-user, media batch-add and preferences-create all succeed,
\* the state tag becomes menu and the pending media list is discarded from
\* the session data.
C4_FinalizeSuccess ==
    (out.handler \in RegistrationHandlers /\ ThreeSucceeded(out.calls))
    => (state[out.u] = "menu" /\ ~has_key(data[out.u], "media"))


\* the media batches among a sequence of calls
Batches(calls) == {c \in Range(calls) : c.op = "media/batch-add"}

\* C5: after any sequence of upload, "Continue" and failed-finalize events in
\* set_media or update_media, the pending media list in the session never
\* holds more than 5 descriptors, and every media batch submitted to the
\* profile API (batch-add at registration, replace-all at profile editing)
\* holds between 1 and 5 descriptors.
C5_MediaBounds ==
    /\ \A u \in Users : Len(get_list(data[u], "media")) <= media_max_count
    /\ \A c \in Batches(out.calls) \cup UNION {Batches(tasks[i].calls) : i \in TaskIds} :
         media_min_count <= c.n /\ c.n <= media_max_count

\* the upload handlers of u that have not yet written their file
BeforeWrite(u) ==
    {i \in TaskIds : tasks[i].u = u /\ tasks[i].pc \in {"lock", "read", "write"}}

\* C6: when several media events of the same user are handled concurrently
\* in set_media or update_media, with no finalize clearing the list in
\* between, no append is lost: the pending list holds exactly the files of
\* the upload handlers that have passed their write.
C6_NoLostAppend ==
    \A u \in Users :
      LET media == get_list(data[u], "media") IN
      /\ Len(media) + Cardinality(BeforeWrite(u)) = nfiles[u]
      /\ FileIds(media) =
           (1 .. nfiles[u]) \ {tasks[i].file.telegram_id : i \in BeforeWrite(u)}

\* two upload handlers of one user are in flight together and both files
\* are in the list
C6_Witness ==
    \E i, j \in TaskIds :
      /\ i # j
      /\ tasks[i].u = tasks[j].u
      /\ tasks[i].pc = "check" /\ tasks[j].pc = "check"
      /\ FileIds(get_list(data[tasks[i].u], "media"))
           = {tasks[i].file.telegram_id, tasks[j].file.telegram_id}

\* the locks of a registry: one per user that has used it, no two users
\* share one, a handler inside the locked block holds the lock of its user,
\* and a handler that waits for its lock waits for a handler of its own user
C7_Registry ==
    \A r \in Registries :
      LET reg == user_locks[r] IN
      /\ Len(reg.held) = Cardinality(DOMAIN reg.map)
      /\ \A u, v \in DOMAIN reg.map : u # v => reg.map[u] # reg.map[v]
      /\ \A i \in TaskIds :
           (tasks[i].h \in UploadHandlers /\ RegistryOf(tasks[i].h) = r) =>
             /\ tasks[i].pc \in {"read", "write"} =>
                  /\ tasks[i].u \in DOMAIN reg.map
                  /\ tasks[i].lock = reg.map[tasks[i].u]
                  /\ reg.held[tasks[i].lock] = i
             /\ (tasks[i].pc = "lock" /\ tasks[i].u \in DOMAIN reg.map
                   /\ reg.held[reg.map[tasks[i].u]] # 0) =>
                  tasks[reg.held[reg.map[tasks[i].u]]].u = tasks[i].u

\* a lock once made for a user stays in the registry and stays the same
C7_Step ==
    \A r \in Registries : \A u \in DOMAIN user_locks[r].map :
      /\ u \in DOMAIN user_locks'[r].map
      /\ user_locks'[r].map[u] = user_locks[r].map[u]

\* C7: the lock registry holds at most one lock per user, created on the
\* first use and never removed; calls for the same user get the same lock and
\* calls for different users get different locks, so the upload handler of
\* one user is never blocked by the lock of another user.
C7_UserLocks == []C7_Registry /\ [][C7_Step]_vars

\* handlers of two users are inside their locked blocks of the same
\* registry at the same time
C7_Witness ==
    \E i, j \in TaskIds :
      /\ tasks[i].u # tasks[j].u
      /\ tasks[i].h = tasks[j].h
      /\ tasks[i].pc \in {"read", "write"} /\ tasks[j].pc \in {"read", "write"}

\* the API calls of a handler among which users/me was answered
MeAnswered(calls) == \E c \in Range(calls) : c.op = "users/me" /\ c.answer = "ok"

C8_Step ==
    \A u \in Users :
      LET h == out'.handler
          m == Range(out'.msgs)
          mine == (out'.u = u)
          prior == Kv("locale", get_value(data[u], "locale"))
      IN /\ (mine /\ h \in {"show_menu", "update_preferences"}) => data'[u] = prior
         /\ (mine /\ "search_settings_updated" \in m) => data'[u] = prior
         /\ (mine /\ "no_more_rewinds" \in m) => data'[u] = prior
         /\ (mine /\ "profile_buttons" \in m /\ h \notin MediaEditHandlers)
              => data'[u] = prior
         /\ (mine /\ h = "cmd_start") =>
              /\ DOMAIN data'[u] = {"locale"}
              /\ ~MeAnswered(out'.calls) => data'[u] = prior
         /\ \A i \in TaskIds :
              (tasks[i].u = u /\ tasks[i].pc \in {"menu_data", "prof_clear"}
                 /\ tasks'[i].pc # tasks[i].pc)
              => data'[u] = prior

\* C8: every preserve-locale clear (clear_state with except_locale on
\* entering the profile and preferences screens, the resets of show_menu and
\* of /start) leaves exactly one key in the session data, locale, with the
\* value it had before.  (After the reset of /start a found account
\* stores its own language under the same key.)
C8_PreserveLocale == [][C8_Step]_vars

\* the menu reset has discarded the keys of a browsing session
C8_Witness ==
    /\ "no_more_rewinds" \in Range(out.msgs)
    /\ state[U1] = "menu"
    /\ data[U1] = Kv("locale", "en")

\* the messages of the validators
ValidatorMessages ==
    {"name_letters", "name_too_short", "name_too_long", "invalid_date_format",
     "too_young", "too_old", "bio_too_long", "invalid_age_range", "age_too_low",
     "age_too_high", "min_age_not_lower", "video_too_long", "media_too_few",
     "media_too_many"}

C9_Step ==
    (Range(out'.msgs) \cap ValidatorMessages # {}) =>
      /\ out'.calls = <<>>
      /\ state'[out'.u] = state[out'.u]
      /\ data'[out'.u] = data[out'.u]

\* C9: whenever a validator rejects an input (name, birth date, bio, age
\* range, video duration, media count) in a registration or editing state,
\* the handler sends the validator's message, makes no API call and leaves
\* the state tag and the session data unchanged.
C9_Rejection == [][C9_Step]_vars

C10_Step ==
    (/\ out'.handler \in {"rewind", "rewind_with_keyboard"}
     /\ \E c \in Range(out'.calls) : c.op = "rewinds" /\ c.answer = "s400")
    => /\ get_int(data'[out'.u], "rewind_index") = get_int(data[out'.u], "rewind_index")
       /\ get_value(data'[out'.u], "match_id") = get_value(data[out'.u], "match_id")
       /\ "rewind_limit_exceeded" \in Range(out'.msgs)

\* C10: when a rewind is requested and the rewind list answers 400,
\* rewind_index is not incremented, match_id is unchanged and the user is
\* sent the "can't rewind more than N times" message.
C10_RewindLimit == [][C10_Step]_vars


\* the list call of the refresh of the screen whose state tag is st
RefreshOp(st) ==
    IF st = "likes" THEN "likes" ELSE IF st = "matches" THEN "matches" ELSE "matches/find"

RefreshOps == {"likes", "matches", "matches/find"}

C11_Step ==
    (out'.handler = "react" /\ out'.calls # <<>>) =>
      LET calls == out'.calls
          s == state[U1]
      IN /\ s \in {"search", "likes", "matches"}
         /\ calls[1].op = "reactions"
         /\ \A k \in 2 .. Len(calls) : calls[k].op # "reactions"
         /\ calls[1].answer = "ok" =>
              /\ Len(calls) >= 2 /\ calls[2].op = "users/me"
              /\ calls[2].answer = "ok" => (Len(calls) >= 3 /\ calls[3].op = RefreshOp(s))
         /\ \A k \in 1 .. Len(calls) : calls[k].op \notin RefreshOps \ {RefreshOp(s)}
         /\ "profile_card" \in Range(out'.msgs) =>
              /\ state'[U1] = s
              /\ s = "likes" => get_value(data'[U1], "match_id") = NextLike

\* C11: a like or a dislike in search, likes or matches posts the reaction
\* first and, once it is posted, runs the refresh of the screen it was sent
\* in: in likes the like list is fetched again and the next candidate is
\* shown with the state tag still likes, in matches the matches list, in
\* search the best-match search; no reaction runs the refresh of another
\* screen, so one sent in likes never runs the search.
C11_ReactRefresh == [][C11_Step]_vars

\* a reaction in likes was posted and the next like candidate is shown
C11_Witness ==
    /\ out.handler = "react"
    /\ state[U1] = "likes"
    /\ Len(out.calls) >= 3 /\ out.calls[1].op = "reactions" /\ out.calls[3].op = "likes"
    /\ "profile_card" \in Range(out.msgs)

\* the positions of the update-user calls among the calls of a handler
UpdateCalls(calls) == {k \in 1 .. Len(calls) : calls[k].op = "users/me:put"}

C12_Step ==
    out'.handler = "update_bio" =>
      LET calls == out'.calls
          msgs == out'.msgs
      IN /\ state[U1] = "update_bio"
         /\ ~validate_bio("Bio256").ok /\ validate_bio("Bio255").ok
         /\ IF "bio_too_long" \in Range(msgs)
            THEN /\ msgs = <<validate_bio("Bio256").msg>>
                 /\ calls = <<>>
                 /\ state'[U1] = "update_bio"
                 /\ data'[U1] = data[U1]
            ELSE /\ UpdateCalls(calls) = {1}
                 /\ calls[1].n <= bio_max_length
                 /\ ("profile_updated" \in Range(msgs) /\ "profile_buttons" \in Range(msgs))
                      => state'[U1] = "profile"
                 /\ state'[U1] \in {"profile", "update_bio"}

C13_Step ==
    /\ (state[U1] = "deactivated" /\ state'[U1] # "deactivated")
         => out'.handler = "activate_account"
    /\ (state[U1] = "deleted" /\ state'[U1] # "deleted")
         => out'.handler = "cmd_start"

\* C13: once the state tag is deactivated only "Activate my account"
\* changes it, and once it is deleted only "Start registration" or /start
\* changes it; every other event in these states leaves the state tag as
\* it is.
C13_LockedStates == [][C13_Step]_vars

\* the deactivate call and the delete call among the calls of a handler
IsDeactivate(c) == c.op = "users/me:put" /\ c.arg = "is_active=False"
IsDelete(c) == c.op = "users/me:delete"

\* the texts the routing of the confirmation handlers is tried with
ConfirmTexts ==
    {"Yes", "No", "Deactivate", "Delete account", "Activate my account", "Settings",
     "Menu", "/menu", "/start", "Start registration", "Spam"}

\* the confirmation handlers are reached only by their answer in their state
C14_Routes ==
    \A st \in AppStates \cup {NoState}, t \in ConfirmTexts :
      LET h == Route(st, "text", t) IN
      /\ h = "deactivate_account_confirm" <=> (st = "deactivate_confirm" /\ t = "Yes")
      /\ h = "delete_account_confirm" <=> (st = "delete_confirm" /\ t = "Yes")
      /\ h = "deactivate_account_reject" <=> (st = "deactivate_confirm" /\ t = "No")
      /\ h = "delete_account_reject" <=> (st = "delete_confirm" /\ t = "No")

C14_Step ==
    LET h == out'.handler
        calls == Range(out'.calls)
    IN /\ C14_Routes
       /\ (\E c \in calls : IsDeactivate(c))
            => (h = "deactivate_account_confirm" /\ state[U1] = "deactivate_confirm")
       /\ (\E c \in calls : IsDelete(c))
            => (h = "delete_account_confirm" /\ state[U1] = "delete_confirm")
       /\ (state'[U1] = "deactivate_confirm" /\ state[U1] # "deactivate_confirm")
            => state[U1] = "settings"
       /\ (state'[U1] = "delete_confirm" /\ state[U1] # "delete_confirm")
            => state[U1] = "settings"
       /\ h \in {"deactivate_account_reject", "delete_account_reject"}
            => (out'.calls = <<>> /\ state'[U1] = "settings")

\* C14: the deactivate call (update-user with is_active false) and the
\* delete-user call are issued only by a "Yes" received in
\* deactivate_confirm respectively delete_confirm, each of which is entered
\* only from settings; a "No" in either confirmation state issues no API
\* call and moves the state tag to settings.
C14_Confirmations == [][C14_Step]_vars

\* an account was deactivated by the "Yes" of the confirmation
C14_Witness ==
    /\ out.handler = "deactivate_account_confirm"
    /\ \E c \in Range(out.calls) : IsDeactivate(c) /\ c.answer = "ok"
    /\ state[U1] = "deactivated"

BrowsingStates == {"search", "likes", "matches"}

\* the profiles whose media were fetched for a card among the calls of a
\* handler
CardsFetched(calls) == {c.arg : c \in {x \in Range(calls) : x.op = "media" /\ x.arg # None}}

C15_Step ==
    LET h == out'.handler
        calls == out'.calls
        before == get_value(data[U1], "match_id")
        after == get_value(data'[U1], "match_id")
    IN /\ \A st \in BrowsingStates : Route(st, "text", "Report") = "report"
       \* the match_id a browsing screen stores is that of the card it shows
       /\ (after # before /\ after # None)
            => ("profile_card" \in Range(out'.msgs) /\ CardsFetched(calls) = {after})
       /\ (state'[U1] \in BrowsingStates /\ "profile_card" \in Range(out'.msgs))
            => CardsFetched(calls) = {after}
       /\ h = "report"
            => /\ state[U1] \in BrowsingStates
               /\ state'[U1] = "report_reason"
               /\ data'[U1] = data[U1]
       /\ h = "report_reason"
            => /\ state[U1] = "report_reason"
               /\ \A k \in 1 .. Len(calls) :
                    /\ k = 1 /\ calls[k].op = "reports"
                    /\ calls[k].arg = before /\ before # None
                    /\ calls[k].answer = "ok" => state'[U1] = "menu"
               /\ state'[U1] \in {"report_reason", "menu"}
               /\ state'[U1] = "menu" => (Len(calls) = 1 /\ calls[1].answer = "ok")

C16_Step ==
    LET calls == out'.calls IN
    (/\ out'.handler = "report_reason"
     /\ Len(calls) = 1 /\ calls[1].op = "reports"
     /\ calls[1].answer \in {"s409", "s429"})
    => /\ ~out'.raised
       /\ out'.msgs = <<IF calls[1].answer = "s409" THEN "already_reported"
                        ELSE "rate_limited">>

\* C16: when the create-report call answers 409 the user is sent an
\* "already reported" message and when it answers 429 a rate-limited
\* message: exactly one message, and the handler ends normally so that the
\* conversation continues.
C16_ReportErrors == [][C16_Step]_vars

C17_Step ==
    LET calls == out'.calls IN
    (/\ out'.handler = "react"
     /\ Len(calls) >= 1 /\ calls[1].op = "reactions"
     /\ calls[1].answer \in {"s403", "s404"})
    => /\ ~out'.raised
       /\ Len(out'.msgs) >= 1 /\ out'.msgs[1] = "user_not_found"
       /\ Len(calls) >= 2 /\ calls[2].op = RefreshOp(state[U1])

\* C17: when the create-or-update-reaction call answers 404 or 403, the
\* react handler sends "user not found" and then still refreshes the
\* screen the reaction was made on.
C17_ReactionErrors == [][C17_Step]_vars

\* the handlers that call the profile API on an input of the user
C18_Handlers ==
    {"update_name", "update_birth_date", "update_bio", "update_age_preferences",
     "change_language", "deactivate_account_confirm", "activate_account",
     "delete_account_confirm", "report_reason", "react", "search_with_keyboard",
     "show_likes_with_keyboard", "show_matches"}

C18_Step ==
    (/\ out'.handler \in C18_Handlers
     /\ \E c \in Range(out'.calls) : c.answer \in {"s500", "net"})
    => /\ ~out'.raised
       /\ Len(out'.msgs) = 1
       /\ state'[U1] = state[U1]

\* C18: a failure of an API call made by a handler (a 5xx answer or a
\* network failure) is caught inside the handler: no exception leaves it,
\* exactly one message is sent and the state tag is unchanged, so that the
\* same input can be retried.
C18_FailuresCaught == [][C18_Step]_vars

C20_Step ==
    \A i \in TaskIds :
      (tasks[i].pc = "rm_del" /\ tasks'[i].pc = "prof")
      => remote'[tasks[i].u].media = FileIds(tasks[i].d["media"])

\* C20: when replace_all_media returns to update_media_finish without an
\* exception (the finalize of a media edit succeeded), the remote media of
\* the user are exactly the files of the finalized upload buffer: nothing
\* that existed remotely before the edit is left.
C20_ReplaceAll == [][C20_Step]_vars

Dropped ==
    /\ out'.calls = <<>> /\ out'.msgs = <<>> /\ ~out'.raised
    /\ state' = state /\ data' = data

C19_Step ==
    /\ out'.u = None => Dropped
    /\ (/\ out'.u = U1
        /\ out'.handler \in {"react", "report_reason"}
        /\ get_value(data[U1], "match_id") = None)
       => Dropped

\* C19: a message without a user identity, and a reaction or a report
\* reason that arrives while the session holds no match_id, are dropped: no
\* API call, no message, state tag and session data unchanged.
C19_Dropped == [][C19_Step]_vars

\* the answer of the call to op among the calls of a handler, None when the
\* call was not made
AnswerOf(calls, op) ==
    IF \E k \in 1 .. Len(calls) : calls[k].op = op
    THEN calls[CHOOSE k \in 1 .. Len(calls) : calls[k].op = op].answer
    ELSE None

C21_Step ==
    LET calls == out'.calls
        ban == AnswerOf(calls, "bans/check")
        me == AnswerOf(calls, "users/me")
    IN (out'.handler = "cmd_start" /\ out'.u = U1)
       => /\ ban # None
          /\ state'[U1] =
               IF ban = "banned" THEN NoState
               ELSE IF me = "s404" THEN "set_ui_language"
               ELSE IF me = "ok" /\ remote[U1].account = "active" THEN "menu"
               ELSE IF me = "ok" /\ remote[U1].account = "inactive" THEN "deactivated"
               ELSE NoState
          /\ ban = "banned" => (out'.msgs = <<"banned">> /\ me = None)
          /\ me = "s404" => remote[U1].account = "none"

\* C21: /start routes by the remote status: a banned user gets the ban
\* message and ends with no state, a user whose lookup answers 404 enters
\* set_ui_language, an existing active user enters menu, an existing
\* inactive user enters deactivated, and every other outcome of /start
\* leaves no state.
C21_StartRouting == [][C21_Step]_vars

\* /start of a user whose account is deactivated
C21_Witness ==
    /\ out.handler = "cmd_start" /\ out.u = U1
    /\ AnswerOf(out.calls, "users/me") = "ok"
    /\ remote[U1].account = "inactive"
    /\ state[U1] = "deactivated"

C22_Step ==
    \A i \in TaskIds :
      (tasks[i].pc = "age" /\ tasks'[i].pc = "idle")
      => LET a == tasks[i].typed[1]
             b == tasks[i].typed[2]
             u == tasks[i].u
             accepted == state'[u] = "set_location"
         IN /\ (min_age <= a /\ a < b /\ b <= max_age)
                 => /\ accepted
                    /\ data'[u] = update_data(data[u], AgePrefs(a, b))
            /\ a >= b => ~accepted
            /\ (a < min_age \/ a > max_age \/ b < min_age \/ b > max_age) => ~accepted
            /\ ~accepted => (state'[u] = state[u] /\ data'[u] = data[u]
                             /\ Len(out'.msgs) = 1 /\ out'.msgs[1] # "ask_location")

\* C22: validate_preference_age_string accepts the text "a-b" and returns
\* (a, b) for all integers a, b with min_age <= a < b <= max_age, rejects it
\* when a >= b, and rejects it when a or b lies outside [min_age, max_age].
C22_AgeRange == [][C22_Step]_vars

\* the widest range was accepted and stored
C22_Witness ==
    /\ out.handler = "set_age_preferences"
    /\ state[U1] = "set_location"
    /\ get_value(data[U1], "preferred_min_age") = min_age
    /\ get_value(data[U1], "preferred_max_age") = max_age

C23_Step ==
    \A i \in TaskIds :
      (tasks[i].pc = "caption" /\ tasks'[i].pc = "idle" /\ ~out'.raised)
      => LET c == tasks[i].card
             d == IF c.at >= c.viewer_at THEN c.at - c.viewer_at ELSE c.viewer_at - c.at
             near == c.viewer /\ c.viewer_precise /\ c.precise /\ 0 < d /\ d <= 40
             resolved == AnswerOf(out'.calls, "places/name") = "ok"
             fragment == out'.msgs[1]
             kms == {KmText(k) : k \in 1 .. 20}
         IN /\ Len(out'.msgs) = 1
            /\ near <=> fragment \in kms
            /\ near => \E k \in 1 .. 20 : fragment = KmText(k) /\ 2 * k - 1 <= d /\ d <= 2 * k
            /\ (~near /\ resolved) => fragment = "Samarkand"
            /\ (~near /\ ~resolved) => fragment = ""

\* C23: in the profile card the place-name fragment is replaced by a
\* distance in kilometres if and only if a viewer is given, viewer and
\* target both have precise coordinates and the distance d between them
\* satisfies 0 < d <= 20 km (distances are counted in half kilometres); in
\* every other case the place name is used when one was resolved and
\* nothing otherwise.
C23_DistanceOverride == [][C23_Step]_vars

\* a card at exactly 20 km shows the distance although a place name was
\* resolved
C23_Witness ==
    /\ out.handler = "search_with_keyboard"
    /\ out.msgs = <<KmText(20)>>
    /\ AnswerOf(out.calls, "places/name") = "ok"

C24_Step ==
    \A i \in TaskIds :
      LET u == tasks[i].u
          calls == out'.calls
      IN tasks[i].h \in RegistrationHandlers
         => \* a finalize that has read the session goes on to create-user,
            \* whatever exists remotely
            /\ (tasks[i].pc = "fin" /\ tasks'[i].pc # "fin")
                 => \/ tasks'[i].pc = "register"
                    \/ tasks'[i].pc = "idle" /\ out'.raised /\ calls = <<>>
            /\ (tasks[i].pc = "register" /\ tasks'[i].pc # "register")
                 => \/ tasks'[i].pc = "batch" /\ tasks'[i].calls = <<Call("auth/register", 0)>>
                    \/ tasks'[i].pc = "idle" /\ Len(calls) = 1
                         /\ calls[1].op = "auth/register"
            \* a failure after create-user leaves state tag and session as
            \* they were when the finalize began
            /\ (tasks[i].pc \in {"batch", "prefs"} /\ tasks'[i].pc = "idle")
                 => /\ calls[1] = Call("auth/register", 0)
                    /\ remote'[u].account # "none"
                    /\ state'[u] = "set_media"
                    /\ data'[u] = tasks[i].d

\* C24: when finalize fails at media batch-add or at preferences-create
\* after create-user succeeded, state tag and session data are what they
\* were before, and every finalize attempt from set_media issues create-user
\* first, also when the remote user already exists.
C24_Recreate == [][C24_Step]_vars

\* create-user was issued again for a user that already exists remotely
C24_Witness ==
    \E i \in TaskIds :
      /\ tasks[i].h \in RegistrationHandlers
      /\ tasks[i].pc = "batch"
      /\ state[tasks[i].u] = "set_media"
      /\ tasks[i].calls = <<Call("auth/register", 0)>>
      /\ (remote[tasks[i].u].media # {} \/ remote[tasks[i].u].prefs)

\* task i holds a lock of a registry
Holds(i) ==
    \E r \in Registries :
      \E l \in 1 .. Len(user_locks[r].held) : user_locks[r].held[l] = i

C25_Step ==
    \A i \in TaskIds :
      \* the lock is held from the read to the write of data.media
      /\ Holds(i) <=> tasks[i].pc \in {"read", "write"}
      /\ (tasks[i].pc = "lock" /\ tasks'[i].pc = "read") => Holds(i)'
      /\ (tasks[i].pc = "read" /\ tasks'[i].pc = "write")
           => /\ Holds(i)'
              /\ tasks'[i].media = Append(get_list(data[tasks[i].u], "media"), tasks[i].file)
      /\ (tasks[i].pc = "write" /\ tasks'[i].pc # "write")
           => /\ ~Holds(i)'
              /\ tasks'[i].pc = "check"
              /\ get_value(data'[tasks[i].u], "media") = tasks[i].media
      \* while it is held the task makes no call, sends no message and
      \* does not end
      /\ Holds(i)
           => /\ tasks'[i].calls = tasks[i].calls
              /\ tasks'[i].msgs = tasks[i].msgs
              /\ tasks'[i].pc # "idle"
      \* validation, messages and the finalize calls come after the release
      /\ (tasks'[i].calls # tasks[i].calls \/ tasks'[i].msgs # tasks[i].msgs
          \/ (tasks[i].pc # "idle" /\ tasks'[i].pc = "idle"))
           => ~Holds(i) /\ ~Holds(i)'

\* C25: an upload handler holds the per-user lock exactly for the read,
\* append and write of data.media; it has released the lock before it
\* validates the count, sends a message or starts a finalize call, so it
\* makes no API call while it holds a lock.
C25_LockScope == [][C25_Step]_vars

\* an upload handler that took the lock is in a finalize call without it
C25_Witness ==
    \E i \in TaskIds :
      /\ tasks[i].h \in {"set_media", "update_media"}
      /\ tasks[i].media # <<>>
      /\ tasks[i].calls # <<>>
      /\ ~Holds(i)

\* the requests of a handler that change what the external API stores
UpdateOps == {"users/me:put", "preferences:put", "media:delete", "media/batch-add"}

Updates(calls) == SelectSeq(calls, LAMBDA c : c.op \in UpdateOps)

ProfileEdits == {"update_name", "update_birth_date", "update_gender", "update_bio",
                 "update_location", "update_location_selected"}

PreferenceEdits == {"update_gender_preferences", "update_age_preferences"}

\* a handler of an edit sub-flow ends in this step, its update call (for
\* the media, the batch-add) answered with success
Edited ==
    /\ out' # out
    /\ out'.handler \in ProfileEdits \cup PreferenceEdits \cup MediaEditHandlers
    /\ \E k \in 1 .. Len(out'.calls) :
         /\ out'.calls[k].op \in UpdateOps \ {"media:delete"}
         /\ out'.calls[k].answer = "ok"

C26_OriginalStep ==
    Edited
    => /\ Len(Updates(out'.calls)) = 1
       /\ state'[out'.u] = IF out'.handler \in PreferenceEdits THEN "preferences"
                           ELSE "profile"

\* C26 as the specification words it: every edit sub-flow whose update call
\* succeeds issues exactly one update to the external API and ends in state
\* profile, or in state preferences for the two preference sub-flows.
C26_Original == [][C26_OriginalStep]_vars

C26_Step ==
    Edited
    => LET h == out'.handler
           ups == Updates(out'.calls)
           reloaded == \E k \in 1 .. Len(out'.msgs) : out'.msgs[k] = "profile_card"
       IN /\ h \in ProfileEdits
               => /\ Len(ups) = 1 /\ ups[1].op = "users/me:put"
                  /\ state'[out'.u] = IF reloaded THEN "profile" ELSE state[out'.u]
          /\ h \in PreferenceEdits
               => /\ Len(ups) = 1 /\ ups[1].op = "preferences:put"
                  /\ state'[out'.u] = "preferences"
          /\ h \in MediaEditHandlers
               => /\ ups[Len(ups)].op = "media/batch-add"
                  /\ \A k \in 1 .. Len(ups) - 1 : ups[k].op = "media:delete"
                  /\ state'[out'.u] = IF reloaded THEN "profile" ELSE "update_media"

\* C26, amended: on an accepted input and a successful update call the name,
\* birth date, gender, bio and location sub-flows issue exactly one
\* update-user call, and the media sub-flow issues one delete per media file
\* the account has followed by exactly one batch-add; each ends in state
\* profile when the reload of the profile that follows succeeds and keeps its
\* edit state otherwise. The gender preference and age preference sub-flows
\* issue exactly one preferences update and end in state preferences.
C26_EditUpdates == [][C26_Step]_vars

\* a media edit that deleted the file the account had, added the new ones
\* and arrived on the profile screen
C26_Witness ==
    /\ out.handler \in MediaEditHandlers
    /\ Len(Updates(out.calls)) = 2
    /\ Updates(out.calls)[1].op = "media:delete"
    /\ AnswerOf(out.calls, "media/batch-add") = "ok"
    /\ state[U1] = "profile"

\* the position in the call list of the first call of an operation, 0 when
\* there is none
CallAt(calls, op) ==
    IF \E k \in 1 .. Len(calls) : calls[k].op = op
    THEN CHOOSE k \in 1 .. Len(calls) : calls[k].op = op
    ELSE 0

\* what C27 says of a show_matches run that got as far as the fetch; the
\* last conjunct, about a failed fetch, is switched by failedToMenu
MatchesStep(failedToMenu) ==
    \A u \in Users :
      LET calls == out'.calls
          k == CallAt(calls, "matches")
          old == get_int(data[u], "index")
          shown == \E m \in 1 .. Len(out'.msgs) : out'.msgs[m] = "profile_card"
      IN (out' # out /\ out'.handler = "show_matches" /\ out'.u = u /\ k # 0)
         => /\ get_int(data'[u], "index") >= 0
            /\ state[u] = "menu" => calls[k].n = 0
            /\ state[u] = "matches"
                 => calls[k].n \in {old + 1, IF old > 0 THEN old - 1 ELSE old}
            /\ shown => /\ state'[u] = "matches"
                        /\ get_int(data'[u], "index") = calls[k].n
            /\ ~shown => (has_key(data'[u], "index") => data'[u]["index"] = old)
            /\ calls[k].answer = "s404" => state'[u] = "menu"
            /\ (failedToMenu /\ calls[k].answer \notin {"ok", "s404"}) => state'[u] = "menu"

\* C27: the matches index in the session is never negative; entering from
\* menu asks for offset 0, the left arrow for index + 1, the right arrow for
\* index - 1 when index > 0 and index otherwise; the offset is stored only
\* when a match was fetched and displayed; an empty or a failed fetch sends
\* the user to menu.
C27_MatchesOffset == [][MatchesStep(TRUE)]_vars

RewindHandlers == {"rewind", "rewind_with_keyboard"}

Shown(msgs) == \E m \in 1 .. Len(msgs) : msgs[m] = "profile_card"

C28_Step ==
    \A u \in Users :
      LET calls == out'.calls
          k == CallAt(calls, "rewinds")
          idx == get_int(data[u], "rewind_index")
      IN (out' # out /\ out'.u = u)
         => \* a rewind asks for the offset the session holds
            /\ (out'.handler \in RewindHandlers /\ k # 0) => calls[k].n = idx
            \* a rewind that shows a user
            /\ (out'.handler \in RewindHandlers /\ Shown(out'.msgs))
                 => /\ get_value(data'[u], "match_id") = RewindAt(idx)
                    /\ calls[CallAt(calls, "media")].arg = RewindAt(idx)
                    /\ get_int(data'[u], "rewind_index") = idx + 1
                    /\ state'[u] = state[u]
            \* a rewind that finds the history empty
            /\ (out'.handler \in RewindHandlers /\ k # 0 /\ get_rewinds(calls[k].answer) = "empty")
                 => state'[u] = "menu"
            \* a refresh of the search or likes screen
            /\ \/ out'.handler \in {"search_with_keyboard", "show_likes_with_keyboard"}
               \/ /\ out'.handler = "react"
                  /\ state[u] \in {"search", "likes"}
                  /\ AnswerOf(calls, "reactions") = "ok"
               => get_int(data'[u], "rewind_index") = 0

\* C28: each rewind that returns a user sets match_id to that user, adds
\* exactly 1 to rewind_index and leaves the state tag unchanged, so that
\* consecutive rewinds ask for the offsets 0, 1, 2, ...; every refresh of the
\* search or likes screen resets rewind_index to 0; a rewind that returns no
\* user sends the user to menu.
C28_Rewind == [][C28_Step]_vars

\* the second of two consecutive rewinds: offset 1 was asked for, its user
\* is the current one and rewind_index is 2
C28_Witness ==
    /\ out.handler \in RewindHandlers
    /\ Shown(out.msgs)
    /\ out.calls[CallAt(out.calls, "rewinds")].n = 1
    /\ get_value(data[U1], "match_id") = RewindAt(1)
    /\ get_int(data[U1], "rewind_index") = 2

CatchAllStates == {"set_ui_language", "set_gender", "set_gender_preferences", "set_location"}

\* the handlers of the specific triggers of these states, and of the
\* commands that are taken in every state
TriggerHandlers ==
    {"set_language", "set_gender", "set_preferred_gender", "set_location_by_name",
     "set_location_by_name_selected", "set_location", "cmd_start", "cmd_help"}

Reprompts == {"select_one_of_languages", "select_one_of_options", "share_location"}

\* what C29 says of the messages that arrive in the states of sts
CatchAllStep(sts) ==
    \A u \in Users :
      (/\ out' # out /\ out'.u = u
       /\ state[u] \in sts
       /\ out'.handler \notin TriggerHandlers)
      => /\ Len(out'.msgs) = 1 /\ out'.msgs[1] \in Reprompts
         /\ state'[u] = state[u]
         /\ data'[u] = data[u]

\* C29: in set_ui_language, set_gender, set_gender_preferences and
\* set_location an input that matches none of the specific triggers of the
\* state produces one reprompt message and leaves the state tag and the
\* session data unchanged.
C29_CatchAll == [][CatchAllStep(CatchAllStates)]_vars

RegisteredStates == {"menu", "search", "likes", "matches", "settings"}

\* C30: a user for whom no remote account exists never has the session
\* state menu, search, likes, matches or settings.
C30_NoAccountNoMenu ==
    \A u \in Users : remote[u].account = "none" => state[u] \notin RegisteredStates

\* the ban check has just reported the user banned: the last handler that
\* ran is the cmd_start that sent the ban message
ReportedBanned(u) ==
    /\ out.u = u
    /\ out.handler = "cmd_start"
    /\ AnswerOf(out.calls, "bans/check") = "banned"

\* the step does not see the ban lifted: it asks no ban check, or is told
\* "banned" again
BanInForce == AnswerOf(out'.calls, "bans/check") \in {None, "banned"}

C31_Step ==
    \A u \in Users :
      (ReportedBanned(u) /\ BanInForce) => state'[u] \notin {"menu"} \cup BrowsingStates

\* C31: a user whom the ban check reports as banned does not reach state
\* menu or a browsing state as long as the ban stays in force; stated of the
\* event that follows the report.
C31_BannedStaysOut == [][C31_Step]_vars

\* the upload handlers in flight that have issued create-user
Creating == {i \in TaskIds : /\ tasks[i].h = "set_media"
                             /\ CallAt(tasks[i].calls, "auth/register") # 0}

\* C32: when several media events of one user are handled concurrently in
\* set_media, create-user is issued by at most one of the upload handlers.
C32_CreateOnce == Cardinality(Creating) <= 1

\* the finalize step of registration reads the session data in this step
FinalizeReads(i) ==
    /\ tasks[i].h \in RegistrationHandlers
    /\ tasks[i].pc = "fin"
    /\ tasks'[i].pc # "fin"

C33_Step ==
    \A i \in TaskIds :
      FinalizeReads(i) => RequiredKeys \subseteq DOMAIN data[tasks[i].u]

\* C33: whenever the registration finalize step runs, started by "Continue"
\* or by an upload, also with other upload handlers of the user in flight,
\* the session data it reads holds every key it subscripts.
C33_KeysPresent == [][C33_Step]_vars

\* C34: once a finalize has completed, the user is in menu or profile and
\* no handler of an upload flow is in flight, the session data holds no media
\* key.
C34_NoPendingMedia ==
    \A u \in Users :
      (AllIdle /\ state[u] \in {"menu", "profile"}) => ~has_key(data[u], "media")

MediaErrors == {"invalid_media_files", "media_files_too_large", "error_updating_media"}

\* update_media_finish ends in this step with an error message to the user
MediaErrorReported ==
    /\ out' # out
    /\ out'.handler \in MediaEditHandlers
    /\ \E m \in 1 .. Len(out'.msgs) : out'.msgs[m] \in MediaErrors

C35_Step ==
    MediaErrorReported
    => \* none of the files the account had was deleted
       /\ \A k \in 1 .. Len(out'.calls) :
            out'.calls[k].op = "media:delete" => out'.calls[k].answer # "ok"
       /\ remote'[out'.u].media # {}

\* C35: the media replace at the end of a media edit is all-or-nothing: when
\* update_media_finish reports an error to the user, the remote media set of
\* the user is what it was before the attempt, and is not left empty.
C35_AllOrNothing == [][C35_Step]_vars

\* every lock that is held is held by a handler inside its locked span
HeldInSpan ==
    \A r \in Registries :
      \A l \in 1 .. Len(user_locks[r].held) :
        LET i == user_locks[r].held[l] IN
        i # 0 => /\ tasks[i].pc \in {"read", "write"}
                 /\ tasks[i].lock = l
                 /\ RegistryOf(tasks[i].h) = r

\* C36: the per-user upload lock is always released: a handler that leaves
\* the locked span, also on a failed session read or write, no longer holds
\* it, and every upload handler that waits for the lock gets it and leaves
\* the locked span.
C36_LockReleased ==
    /\ []HeldInSpan
    /\ \A i \in TaskIds :
         (tasks[i].pc = "lock") ~> (tasks[i].pc \notin {"lock", "read", "write"})

\* a handler of the user failed inside the locked span and another upload
\* handler of the same user holds the lock now
C36_Witness ==
    /\ out.raised
    /\ out.handler \in UploadHandlers
    /\ \E i \in TaskIds :
         /\ tasks[i].u = out.u
         /\ tasks[i].h = out.handler
         /\ tasks[i].pc = "write"
         /\ Holds(i)

\* the handlers that display the profile card of another user
CardHandlers ==
    {"search_with_keyboard", "show_likes_with_keyboard", "show_matches", "rewind",
     "rewind_with_keyboard", "react"}

C37_Step ==
    \A u \in Users :
      LET old == get_value(data[u], "match_id")
          new == get_value(data'[u], "match_id")
      IN (out' # out /\ out'.u = u)
         => \* match_id changes to a user only when the card of that user is
            \* displayed
            /\ (new # None /\ new # old)
                 => /\ out'.handler \in CardHandlers
                    /\ Shown(out'.msgs)
                    /\ new \in CardsFetched(out'.calls)
            \* a card that is displayed becomes the current one
            /\ (out'.handler \in CardHandlers /\ Shown(out'.msgs))
                 => new \in CardsFetched(out'.calls)
            \* a reaction goes to the current one
            /\ \A k \in 1 .. Len(out'.calls) :
                 out'.calls[k].op = "reactions"
                   => (old # None /\ out'.calls[k].arg = old)

C38_Routes ==
    \A st \in AppStates \cup {NoState} : Route(st, "text", "/start") = "cmd_start"

C38_Step ==
    \A u \in Users :
      (out' # out /\ out'.u = u /\ out'.handler = "cmd_start")
      => LET calls == out'.calls
             reset == Kv("locale", get_value(data[u], "locale"))
         IN /\ calls # <<>> /\ calls[1].op = "bans/check"
            \* whatever the first call answers, the data holds the locale only
            /\ DOMAIN data'[u] = {"locale"}
            \* when the first call fails or reports a ban, what is left is
            \* what was written before it
            /\ calls[1].answer \in {"banned", "s500", "net"}
                 => (state'[u] = NoState /\ data'[u] = reset)

\* C38: /start is handled in every session state, the registration states
\* whose handlers accept any text included, and it sets the state tag to
\* none and the session data to exactly {locale} before its first API call.
C38_StartResets == [][C38_Routes /\ C38_Step]_vars

\* /start in the middle of a dialog whose language was chosen, with the ban
\* check failing: no state, the locale alone
C38_Witness ==
    /\ out.handler = "cmd_start"
    /\ out.raised
    /\ Len(out.calls) = 1
    /\ state[U1] = NoState
    /\ data[U1] = Kv("locale", "en")

\* the handler fetched the user's own record and media and called
\* get_profile_card(user, media) with them
OwnCardCalled(o) == \E i \in 1..Len(o.calls) : o.calls[i] = Call("media", 0)

C39_Step ==
    \A u \in Users :
      (out' # out /\ out'.u = u /\ OwnCardCalled(out'))
      => remote'[u].account = "active"

\* C39: the assertion of get_profile_card that the rendered user is active
\* holds on every call reachable through the dialog: the own-profile screen
\* is never rendered for a user whose account is deactivated.
C39_ActiveCard == [][C39_Step]_vars

C40_Step ==
    \A u \in Users :
      (out' # out /\ out'.u = u /\ out'.handler = "change_language"
         /\ remote[u].account # "none")
      => get_value(data'[u], "locale") = remote'[u].ui_language

\* C40: after a language change in update_ui_language the locale stored in
\* the session equals the ui_language stored remotely for the user; when the
\* update-user call fails the session locale is not left changed.
C40_LocaleAgrees == [][C40_Step]_vars

=============================================================================
